-------------------------------- MODULE Posts --------------------------------
(***************************************************************************)
(* Posts of the mini program: members write and rewrite them, reviewers    *)
(* decide on them, visitors look at and collect them, and they are filed   *)
(* under categories that the platform keeps.  A post is loaded, its copy   *)
(* changed and saved: the save reads the row once more and writes the      *)
(* columns in which the copy differs, the view count included.  Only a     *)
(* view is counted in the database itself.                                 *)
(***************************************************************************)
EXTENDS Integers, FiniteSets

CONSTANTS
  Post, Text,          \* posts, and what may be written in one
  Section, SectionCode, \* the mini program's categories and their codes
  Visitor,             \* members who collect
  Verdict,             \* statuses that reviewers ask for
  Editor,              \* requests that may be in flight at once
  MaxViews             \* bound: views of a post

ASSUME PostsAssumption ==
  /\ Verdict \subseteq {"pending", "published", "rejected", "offline"}
  /\ MaxViews \in Nat

VARIABLES
  post,      \* the posts' rows
  section,   \* the categories' rows
  viewed,    \* rows of miniapp_post_views, per post
  collected, \* rows of miniapp_post_collections
  log,       \* the operation log's rows about posts
  hand,      \* the requests in flight
  reviews,   \* history: what reviewers' requests saved
  overlaid,  \* history: posts whose view count a save put back
  torn       \* history: posts that changed between the two statements of the save
             \* that wrote them last

postVars == <<post, section, viewed, collected, log, hand, reviews, overlaid, torn>>

PostStatus == {"pending", "published", "rejected", "offline"}
PostRow == [status : PostStatus, text : Text, under : Section, views : 0 .. MaxViews]
SectionRow == [row : {"live", "gone"}, code : SectionCode, on : BOOLEAN]
Review == [p : Post, text : Text, to : Verdict]
LogRow == [p : Post, from : PostStatus, to : Verdict]
Unwritten == [status |-> "none"]
Unopened == [row |-> "none"]
NoHand == [op |-> "none"]

\* Rows and copies keep their shape.
PostsTypeOK ==
  /\ \A p \in Post : post[p] \in PostRow \union {Unwritten}
  /\ \A s \in Section : section[s] \in SectionRow \union {Unopened}
  /\ viewed \in [Post -> 0 .. MaxViews] /\ collected \subseteq Post \X Visitor
  /\ log \subseteq LogRow /\ reviews \subseteq Review
  /\ overlaid \subseteq Post /\ torn \subseteq Post
  /\ \A e \in Editor :
       \/ hand[e] = NoHand
       \/ hand[e] \in [op : {"create"}, copy : PostRow]
       \/ hand[e] \in [op : {"write", "review"}, p : Post, from : PostStatus, copy : PostRow]
       \/ hand[e] \in [op : {"patch", "decide"}, p : Post, from : PostStatus, copy : PostRow,
                       seen : PostRow]
       \/ hand[e] \in [op : {"log"}, row : LogRow]
       \/ hand[e] \in [op : {"look"}, p : Post, seen : 0 .. MaxViews]
       \/ hand[e] \in [op : {"view"}, p : Post]
       \/ hand[e] \in [op : {"collect"}, p : Post, v : Visitor]
       \/ hand[e] \in [op : {"found"}, copy : SectionRow]
       \/ hand[e] \in [op : {"section"}, s : Section, copy : SectionRow]
       \/ hand[e] \in [op : {"alter"}, s : Section, copy : SectionRow, seen : SectionRow]
       \/ hand[e] \in [op : {"drop"}, s : Section]

PostsInit ==
  /\ post = [p \in Post |-> Unwritten] /\ section = [s \in Section |-> Unopened]
  /\ viewed = [p \in Post |-> 0] /\ collected = {} /\ log = {}
  /\ hand = [e \in Editor |-> NoHand] /\ reviews = {} /\ overlaid = {} /\ torn = {}

Written(p) == post[p] # Unwritten
Public(p) == post[p].status = "published"

Takes(e, r) == hand[e] = NoHand /\ hand' = [hand EXCEPT ![e] = r]
Leaves(e) == hand' = [hand EXCEPT ![e] = NoHand]
RowsStay == UNCHANGED <<post, section, viewed, collected, log, reviews, overlaid, torn>>

\* save: the columns in which the copy differs from what its SELECT saw are written.
Patched(row, seen, copy) ==
  [f \in DOMAIN copy |-> IF copy[f] # seen[f] THEN copy[f] ELSE row[f]]

-----------------------------------------------------------------------------
\* resolveCategory: the category asked for, or the first one, if it is in use.
Resolves(s) == section[s].row = "live" /\ section[s].on

\* create
CreatePost(e, t, s) ==
  /\ Resolves(s)
  /\ Takes(e, [op |-> "create",
               copy |-> [status |-> "pending", text |-> t, under |-> s, views |-> 0]])
  /\ RowsStay

\* resubmitMine, by its author
ResubmitMine(e, p, t, s) ==
  /\ Written(p) /\ ~Public(p) /\ Resolves(s)
  /\ Takes(e, [op |-> "write", p |-> p, from |-> post[p].status,
               copy |-> [post[p] EXCEPT !.status = "pending", !.text = t, !.under = s]])
  /\ RowsStay

\* removeMine, by its author
RemoveMine(e, p) ==
  /\ Written(p)
  /\ Takes(e, [op |-> "write", p |-> p, from |-> post[p].status,
               copy |-> [post[p] EXCEPT !.status = "offline"]])
  /\ RowsStay

\* updateStatus, by a reviewer: from any status to any.
UpdatePostStatus(e, p, to) ==
  /\ Written(p)
  /\ Takes(e, [op |-> "review", p |-> p, from |-> post[p].status,
               copy |-> [post[p] EXCEPT !.status = to]])
  /\ RowsStay

\* The INSERT of create, under an id of its own.
InsertPost(e, p) ==
  /\ hand[e].op = "create" /\ post[p] = Unwritten
  /\ post' = [post EXCEPT ![p] = hand[e].copy]
  /\ Leaves(e)
  /\ UNCHANGED <<section, viewed, collected, log, reviews, overlaid, torn>>

\* The SELECT of the saves of resubmitMine, removeMine and updateStatus.
SelectPost(e) ==
  LET w == hand[e]
  IN  /\ w.op \in {"write", "review"}
      /\ hand' = [hand EXCEPT ![e] =
           [op |-> IF w.op = "write" THEN "patch" ELSE "decide",
            p |-> w.p, from |-> w.from, copy |-> w.copy, seen |-> post[w.p]]]
      /\ RowsStay

\* Fault: an author's save writes the columns of the text only.
PatchedText(w) ==
  IF w.op = "patch" THEN [post[w.p] EXCEPT !.text = w.copy.text, !.under = w.copy.under]
  ELSE Patched(post[w.p], w.seen, w.copy)

\* The post's row after the UPDATE of a save.
Updated(w) == Patched(post[w.p], w.seen, w.copy)

Says(row) == <<row.status, row.text>>

\* The UPDATE of such a save, and what it does to the histories.
Updates(w) ==
  /\ post' = [post EXCEPT ![w.p] = Updated(w)]
  /\ overlaid' = IF post'[w.p].views # post[w.p].views THEN overlaid \union {w.p} ELSE overlaid
  /\ torn' = IF Says(post[w.p]) = Says(w.seen) THEN torn \ {w.p} ELSE torn \union {w.p}

\* The UPDATE of resubmitMine and removeMine.
SavePost(e) ==
  /\ hand[e].op = "patch"
  /\ Updates(hand[e])
  /\ Leaves(e)
  /\ UNCHANGED <<section, viewed, collected, log, reviews>>

\* The UPDATE of updateStatus.
SaveReview(e) ==
  LET w == hand[e]
  IN  /\ w.op = "decide"
      /\ Updates(w)
      /\ reviews' = reviews \union {[p |-> w.p, text |-> w.copy.text, to |-> w.copy.status]}
      /\ hand' = [hand EXCEPT ![e] =
           [op |-> "log", row |-> [p |-> w.p, from |-> w.from, to |-> w.copy.status]]]
      /\ UNCHANGED <<section, viewed, collected, log>>

\* writeAuditLog: a failure is not told to the reviewer.
WriteAuditLog(e) ==
  /\ hand[e].op = "log"
  /\ log' \in {log, log \union {hand[e].row}}
  /\ Leaves(e)
  /\ UNCHANGED <<post, section, viewed, collected, reviews, overlaid, torn>>

-----------------------------------------------------------------------------
\* getDetail, by anybody
LookAt(e, p) ==
  /\ Written(p) /\ Public(p)
  /\ viewed[p] + Cardinality({d \in Editor : hand[d].op \in {"look", "view"} /\ hand[d].p = p})
       < MaxViews
  /\ Takes(e, [op |-> "look", p |-> p, seen |-> post[p].views])
  /\ RowsStay

\* Fault: the count is taken from the loaded copy.
CountedFromCopy(e) == hand[e].seen + 1

\* increment: the database counts.
Counted(e) == post[hand[e].p].views + 1

CountView(e) ==
  /\ hand[e].op = "look"
  /\ post' = [post EXCEPT ![hand[e].p].views = Counted(e)]
  /\ hand' = [hand EXCEPT ![e] = [op |-> "view", p |-> hand[e].p]]
  /\ UNCHANGED <<section, viewed, collected, log, reviews, overlaid, torn>>

SaveView(e) ==
  /\ hand[e].op = "view"
  /\ viewed' = [viewed EXCEPT ![hand[e].p] = @ + 1]
  /\ Leaves(e)
  /\ UNCHANGED <<post, section, collected, log, reviews, overlaid, torn>>

MayCollect(p) == Written(p) /\ Public(p)

\* addCollect: a collection there is already is left alone.
AddCollect(e, p, v) ==
  /\ MayCollect(p) /\ <<p, v>> \notin collected
  /\ Takes(e, [op |-> "collect", p |-> p, v |-> v])
  /\ RowsStay

\* The index on post and member refuses a second row.
SaveCollect(e) ==
  /\ hand[e].op = "collect"
  /\ collected' = collected \union {<<hand[e].p, hand[e].v>>}
  /\ Leaves(e)
  /\ UNCHANGED <<post, section, viewed, log, reviews, overlaid, torn>>

CancelCollect(p, v) ==
  /\ <<p, v>> \in collected
  /\ collected' = collected \ {<<p, v>>}
  /\ UNCHANGED <<post, section, viewed, log, hand, reviews, overlaid, torn>>

-----------------------------------------------------------------------------
\* save looks for the code among the categories that are not removed.
CodeUnused(c, others) == \A q \in others : section[q].row = "live" => section[q].code # c

Offer(c, on) == [row |-> "live", code |-> c, on |-> on]

\* save of a new category
FoundSection(e, c, on) ==
  CodeUnused(c, Section) /\ Takes(e, [op |-> "found", copy |-> Offer(c, on)]) /\ RowsStay

\* save of one that there is
SaveSection(e, s, c, on) ==
  /\ section[s].row = "live" /\ CodeUnused(c, Section \ {s})
  /\ Takes(e, [op |-> "section", s |-> s, copy |-> Offer(c, on)])
  /\ RowsStay

\* The index on the code, removed rows included.
Indexed(s, c) ==
  \A q \in Section \ {s} : section[q] # Unopened => section[q].code # c

\* The row is written if the index lets it in.
Stores(s, row) ==
  /\ section' = IF Indexed(s, row.code) THEN [section EXCEPT ![s] = row] ELSE section
  /\ UNCHANGED <<post, viewed, collected, log, reviews, overlaid, torn>>

\* The INSERT of a new one, under an id of its own.
InsertSection(e, s) ==
  /\ hand[e].op = "found" /\ section[s] = Unopened
  /\ Stores(s, hand[e].copy) /\ Leaves(e)

\* The SELECT of save, which sees removed rows, too.
SelectSection(e) ==
  LET w == hand[e]
  IN  /\ w.op = "section"
      /\ hand' = [hand EXCEPT ![e] =
           [op |-> "alter", s |-> w.s, copy |-> w.copy, seen |-> section[w.s]]]
      /\ RowsStay

\* The UPDATE of save: a row that the SELECT saw removed is there again.
StoreSection(e) ==
  LET w == hand[e]
  IN  /\ w.op = "alter"
      /\ Stores(w.s, Patched(section[w.s], w.seen, w.copy))
      /\ Leaves(e)

\* updateStatus of a category, whether removed or not.
ShowSection(s, on) ==
  /\ section[s] # Unopened
  /\ section' = [section EXCEPT ![s].on = on]
  /\ UNCHANGED <<post, viewed, collected, log, hand, reviews, overlaid, torn>>

\* remove: posts are not looked at.
RemoveSection(e, s) ==
  section[s].row = "live" /\ Takes(e, [op |-> "drop", s |-> s]) /\ RowsStay

DropSection(e) ==
  /\ hand[e].op = "drop"
  /\ section' = [section EXCEPT ![hand[e].s].row = "gone"]
  /\ Leaves(e)
  /\ UNCHANGED <<post, viewed, collected, log, reviews, overlaid, torn>>

-----------------------------------------------------------------------------
PostsNext ==
  \/ \E e \in Editor, t \in Text, s \in Section : CreatePost(e, t, s)
  \/ \E e \in Editor, p \in Post, t \in Text, s \in Section : ResubmitMine(e, p, t, s)
  \/ \E e \in Editor, p \in Post : RemoveMine(e, p) \/ LookAt(e, p) \/ InsertPost(e, p)
  \/ \E e \in Editor, p \in Post, to \in Verdict : UpdatePostStatus(e, p, to)
  \/ \E e \in Editor :
       \/ SelectPost(e) \/ SavePost(e) \/ SaveReview(e) \/ WriteAuditLog(e)
       \/ CountView(e) \/ SaveView(e) \/ SaveCollect(e)
       \/ SelectSection(e) \/ StoreSection(e) \/ DropSection(e)
  \/ \E e \in Editor, p \in Post, v \in Visitor : AddCollect(e, p, v)
  \/ \E p \in Post, v \in Visitor : CancelCollect(p, v)
  \/ \E e \in Editor, c \in SectionCode, on \in BOOLEAN :
       FoundSection(e, c, on) \/ \E s \in Section : SaveSection(e, s, c, on)
  \/ \E s \in Section, on \in BOOLEAN : ShowSection(s, on)
  \/ \E e \in Editor, s \in Section : RemoveSection(e, s) \/ InsertSection(e, s)

PostsSpec == PostsInit /\ [][PostsNext]_postVars

-----------------------------------------------------------------------------
(* What is public is a text that a reviewer's request loaded and published,   *)
(* however resubmissions, removals, views and reviews overlap, if the post     *)
(* did not change between the two statements of the save that wrote it last.   *)
PublicWasReviewed ==
  \A p \in Post \ torn : Public(p) => [p |-> p, text |-> post[p].text, to |-> "published"] \in reviews

(* The view count of a post is the number of its views, those counted whose   *)
(* row is still to come included, unless a save of the post put it back; and  *)
(* it never says more.                                                        *)
Counts(p) == viewed[p] + Cardinality({e \in Editor : hand[e].op = "view" /\ hand[e].p = p})
ViewsAddUp ==
  \A p \in Post : Written(p) =>
    post[p].views <= Counts(p) /\ (p \in overlaid \/ post[p].views = Counts(p))

(* The operation log tells of no review that was not saved.                   *)
LogTellsReviews ==
  \A r \in log : \E v \in reviews : v.p = r.p /\ v.to = r.to

(* What somebody collected was public at some time.                           *)
CollectedWasPublic ==
  \A k \in collected : \E v \in reviews : v.p = k[1] /\ v.to = "published"

(* Nothing is public, logged or collected that no reviewer let through.       *)
ReviewsHold == PublicWasReviewed /\ LogTellsReviews /\ CollectedWasPublic

(* No two categories in use share a code, however saves and removals overlap. *)
SectionCodeOnce ==
  \A s, q \in Section :
    s # q /\ section[s].row = "live" /\ section[q].row = "live" =>
      section[s].code # section[q].code
=============================================================================
