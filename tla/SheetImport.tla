----------------------------- MODULE SheetImport -----------------------------
(***************************************************************************)
(* Imports of products and of attributes from the sheets the service hands *)
(* out.  A sheet has headings, instructions, for products a table of the   *)
(* categories' attributes, a row that says "example", the headings again   *)
(* and samples; its user fills in rows behind.  Pictures are uploaded      *)
(* first, then the rows are read, then each is saved on its own, while     *)
(* others go on editing the categories.  Of a cell it is only said whether *)
(* it is there and sound; columns stay where the template puts them.       *)
(***************************************************************************)
EXTENDS Integers, Sequences, FiniteSets

CONSTANTS
  SheetCategory, \* categories that the tenant can read
  PictureId,     \* pictures that cells refer to by id
  Entry,         \* what a user may fill a row in with
  MaxEntries,    \* rows filled in
  Blank0, Text0  \* a second cell that is empty, one with some other text

EntryShape == [named : BOOLEAN, second : SheetCategory \union {Blank0, Text0},
               sound : BOOLEAN, urls : Nat, anchored : Nat, ids : SUBSET PictureId]

ASSUME SheetAssumption ==
  /\ {Blank0, Text0} \intersect SheetCategory = {} /\ Blank0 # Text0
  /\ MaxEntries \in Nat /\ \A e \in Entry : e \in EntryShape

VARIABLES
  sheet,    \* the rows, and which import they are for
  step,     \* what the import does next
  uploaded, \* pictures with an address: per row how many, and which ids
  queue,    \* numbers of the rows that were read and wait
  handled,  \* those that were saved or refused
  made,     \* products and attributes made: their row and pictures
  present   \* categories that are there

sheetVars == <<sheet, step, uploaded, queue, handled, made, present>>

Written == [named |-> TRUE, second |-> Text0, sound |-> FALSE,
            urls |-> 0, anchored |-> 0, ids |-> {}]
RowOf(part) == [part |-> part, entry |-> Written]
EmptyRow == [part |-> "empty", entry |-> [Written EXCEPT !.named = FALSE, !.second = Blank0]]
Rows(n, part) == [i \in 1..n |-> RowOf(part)]
Mark == RowOf("mark")
Heading == RowOf("heading")

\* The instructions: an empty row, a title and what to do.
InfoRows == <<EmptyRow>> \o Rows(9, "note")

\* The table of the categories: an empty row, a title, headings and its lines.
ReferenceRows(lines) == <<EmptyRow>> \o Rows(2 + lines, "note")

\* generateTemplate of products and of attributes: what stands above the mark.
ProductRows(lines) == <<Heading>> \o InfoRows \o ReferenceRows(lines)
AttributeRows == <<Heading, EmptyRow>> \o Rows(5, "note") \o <<EmptyRow>>

Above(for, cats) == IF for = "products" THEN ProductRows(Cardinality(cats)) ELSE AttributeRows

SampleOf(second) ==
  [part |-> "sample", entry |-> [Written EXCEPT !.second = second, !.sound = TRUE]]

\* Four attributes; one product if there is a category with attributes.
Samples(for, cats) ==
  IF for = "attributes" THEN [i \in 1..4 |-> SampleOf(Text0)]
  ELSE IF cats = {} THEN <<>> ELSE <<SampleOf(CHOOSE k \in cats : TRUE)>>

\* What the user leaves of it: all, all but the samples, or nothing behind the heading.
Left(for, cats, part) ==
  CASE part = "all" -> Above(for, cats) \o <<Mark, Heading>> \o Samples(for, cats)
    [] part = "no samples" -> Above(for, cats) \o <<Mark, Heading>>
    [] part = "heading" -> <<Heading>>

FilledIn(entries) == [i \in DOMAIN entries |-> [part |-> "data", entry |-> entries[i]]]
EntryLists == UNION {[1..n -> Entry] : n \in 0..MaxEntries}
NoUploads == [anchored |-> {}, ids |-> {}]

SheetInit ==
  /\ \E for \in {"products", "attributes"}, cats \in SUBSET SheetCategory,
        part \in {"all", "no samples", "heading"}, entries \in EntryLists :
       /\ sheet = [for |-> for, rows |-> Left(for, cats, part) \o FilledIn(entries)]
       /\ present = cats
  /\ step = "upload" /\ uploaded = NoUploads
  /\ queue = {} /\ handled = {} /\ made = {}

At(r) == sheet.rows[r]
Mine == sheet.for = "products"

-----------------------------------------------------------------------------

\* Fault: the sample is passed over as well.
DataStartAfterSample(rows) ==
  LET marks == {r \in DOMAIN rows : rows[r].part = "mark"}
  IN  IF marks = {} THEN 2 ELSE (CHOOSE r \in marks : \A q \in marks : q <= r) + 3

\* findDataStartRow: two rows after the last mark, or the second row.
DataStart(rows) ==
  LET marks == {r \in DOMAIN rows : rows[r].part = "mark"}
  IN  IF marks = {} THEN 2 ELSE (CHOOSE r \in marks : \A q \in marks : q <= r) + 2

\* The row a picture is anchored in, startRow.
Anchor(r) == r

Anchored ==
  UNION {{[row |-> Anchor(r), i |-> i] : i \in 1..At(r).entry.anchored} :
         r \in {q \in DOMAIN sheet.rows : Anchor(q) >= DataStart(sheet.rows)}}

\* uploadEmbeddedImages, uploadWpsCellImages: each upload may fail, which is logged and
\* passed over; the pictures of other rows than those of the data stay where they are.
UploadPictures ==
  /\ step = "upload"
  /\ IF ~Mine THEN UNCHANGED uploaded
     ELSE \E some \in SUBSET Anchored, ids \in SUBSET PictureId :
            uploaded' = [anchored |-> some, ids |-> ids]
  /\ step' = "read"
  /\ UNCHANGED <<sheet, queue, handled, made, present>>

\* Products pass over a row without a name, attributes one without a type as well.
Skipped(e) == ~e.named /\ (Mine \/ e.second = Blank0)

ReadRows ==
  /\ step = "read"
  /\ queue' = {r \in DOMAIN sheet.rows : r >= DataStart(sheet.rows) /\ ~Skipped(At(r).entry)}
  /\ step' = "save"
  /\ UNCHANGED <<sheet, uploaded, handled, made, present>>

\* The addresses in its cells, its uploaded pictures and those its cells refer to.
Pictures(r) ==
  At(r).entry.urls + Cardinality({p \in uploaded.anchored : p.row = r})
    + Cardinality(At(r).entry.ids \intersect uploaded.ids)

Few(r) == Pictures(r) <= 5

\* validateAndSaveProduct, validateAndSave: a name, a category that is there or a type,
\* sound cells, and for products at most five pictures.
Accepts(r) ==
  LET e == At(r).entry
  IN  /\ e.named /\ e.second # Blank0 /\ e.sound
      /\ Mine => e.second \in present /\ Few(r)

\* The first row that waits is saved or refused, and the next one follows; a code that
\* is drawn may be taken already, which refuses the row, too.
SaveRow ==
  \E r \in queue :
    /\ step = "save" /\ \A q \in queue : r <= q
    /\ \/ Accepts(r) /\ made' = made \union {[row |-> r, pictures |-> IF Mine THEN Pictures(r) ELSE 0]}
       \/ UNCHANGED made
    /\ queue' = queue \ {r} /\ handled' = handled \union {r}
    /\ UNCHANGED <<sheet, step, uploaded, present>>

FinishImport ==
  /\ step = "save" /\ queue = {}
  /\ step' = "done"
  /\ UNCHANGED <<sheet, uploaded, queue, handled, made, present>>

\* Another request deletes a category.
LoseCategory(k) ==
  /\ k \in present /\ step # "done"
  /\ present' = present \ {k}
  /\ UNCHANGED <<sheet, step, uploaded, queue, handled, made>>

SheetNext ==
  \/ UploadPictures \/ ReadRows \/ SaveRow \/ FinishImport
  \/ \E k \in SheetCategory : LoseCategory(k)

SheetSpec == SheetInit /\ [][SheetNext]_sheetVars

-----------------------------------------------------------------------------
\* Uploads, rows and what is made of them fit the sheet.
SheetTypeOK ==
  /\ step \in {"upload", "read", "save", "done"}
  /\ uploaded.anchored \subseteq [row : Nat, i : Nat] /\ uploaded.ids \subseteq PictureId
  /\ queue \union handled \subseteq DOMAIN sheet.rows /\ present \subseteq SheetCategory
  /\ \A m \in made : m.row \in handled /\ m.pictures \in Nat

Marked == \E r \in DOMAIN sheet.rows : At(r).part = "mark"

(* Headings and instructions are not taken for data as long as the mark is in   *)
(* its place; the samples are, if they were left standing.                      *)
OnlyEntries == Marked => \A r \in handled : At(r).part \in {"sample", "data"}

(* In the end every row with a name was saved or refused, wherever the template *)
(* was cut.                                                                     *)
NothingSkipped ==
  step = "done" =>
    \A r \in DOMAIN sheet.rows : At(r).part = "data" /\ At(r).entry.named => r \in handled

(* A product has at most five pictures, wherever they come from, ...            *)
FewPictures == \A m \in made : m.pictures <= 5

(* ... and only those of its own row.                                           *)
OwnPictures ==
  \A m \in made :
    m.pictures <= At(m.row).entry.urls + At(m.row).entry.anchored + Cardinality(At(m.row).entry.ids)

(* An import takes the rows that were entered, with their own pictures.       *)
RowsAsEntered == OnlyEntries /\ NothingSkipped /\ FewPictures /\ OwnPictures
=============================================================================
