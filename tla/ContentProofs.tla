---------------------------- MODULE ContentProofs ----------------------------
(***************************************************************************)
(* What is public was reviewed, views add up, a tenant has one web site,   *)
(* and a code names one location and one category: for any number of posts,*)
(* rows and requests in flight that save stale copies.                     *)
(***************************************************************************)
EXTENDS Pages, FiniteSetTheorems, TLAPS

-----------------------------------------------------------------------------
(* Sets and how many elements they have *)

\* Two sets that differ by one element at most.
LEMMA CountChange ==
  ASSUME NEW A, NEW B, NEW e, IsFiniteSet(A), IsFiniteSet(B), A \ {e} = B \ {e}
  PROVE  /\ Cardinality(A) \in Nat /\ Cardinality(B) \in Nat
         /\ Cardinality(B) = Cardinality(A) + (IF e \in B THEN 1 ELSE 0)
                                            - (IF e \in A THEN 1 ELSE 0)
<1>1. Cardinality(A) \in Nat /\ Cardinality(B) \in Nat
  BY FS_CardinalityType
<1>2. Cardinality(A \ {e}) = IF e \in A THEN Cardinality(A) - 1 ELSE Cardinality(A)
  BY FS_RemoveElement
<1>3. Cardinality(B \ {e}) = IF e \in B THEN Cardinality(B) - 1 ELSE Cardinality(B)
  BY FS_RemoveElement
<1> QED
  BY <1>1, <1>2, <1>3

\* A set without two different elements.
LEMMA AtMostOne ==
  ASSUME NEW S, \A x, y \in S : x = y
  PROVE  IsFiniteSet(S) /\ Cardinality(S) <= 1
<1>1. CASE S = {}
  BY <1>1, FS_EmptySet
<1>2. CASE S # {}
  <2>1. PICK x : S = {x}
    BY <1>2
  <2>2. IsFiniteSet({x}) /\ Cardinality({x}) = 1
    BY FS_Singleton, Zenon
  <2> QED
    BY <2>1, <2>2
<1> QED
  BY <1>1, <1>2

-----------------------------------------------------------------------------
(* Posts: shapes *)

LooseRow == [status : PostStatus, text : Text, under : Section, views : Nat]

PostRequest ==
  {NoHand}
  \union [op : {"create"}, copy : LooseRow]
  \union [op : {"write", "review"}, p : Post, from : PostStatus, copy : LooseRow]
  \union [op : {"patch", "decide"}, p : Post, from : PostStatus, copy : LooseRow,
          seen : LooseRow]
  \union [op : {"log"}, row : LogRow]
  \union [op : {"look"}, p : Post, seen : Nat]
  \union [op : {"view"}, p : Post]
  \union [op : {"collect"}, p : Post, v : Visitor]
  \union [op : {"found"}, copy : SectionRow]
  \union [op : {"section"}, s : Section, copy : SectionRow]
  \union [op : {"alter"}, s : Section, copy : SectionRow, seen : SectionRow]
  \union [op : {"drop"}, s : Section]

\* The shape of the tables, the bound on views apart.
PostsShape ==
  /\ post \in [Post -> LooseRow \union {Unwritten}]
  /\ section \in [Section -> SectionRow \union {Unopened}]
  /\ viewed \in [Post -> Nat] /\ collected \subseteq Post \X Visitor
  /\ log \subseteq LogRow /\ reviews \subseteq Review
  /\ overlaid \subseteq Post /\ torn \subseteq Post
  /\ hand \in [Editor -> PostRequest]

Busy(p, ops) == {e \in Editor : hand[e].op \in ops /\ hand[e].p = p}

\* What is in flight was read from rows that have only gone on since.
Fit(r) ==
  /\ r.op \in {"write", "review", "patch", "decide", "look", "view", "collect"} => Written(r.p)
  /\ r.op = "create" => r.copy.status = "pending" /\ r.copy.views = 0
  /\ r.op \in {"write", "patch"} => r.copy.status # "published"
  /\ r.op \in {"review", "decide"} => r.copy.status \in Verdict
  /\ r.op \in {"write", "review", "patch", "decide"} => r.copy.views <= Counts(r.p)
  /\ r.op \in {"patch", "decide"} => r.seen.views <= Counts(r.p)
  /\ r.op = "look" => r.seen <= Counts(r.p)
  /\ r.op = "log" => \E v \in reviews : v.p = r.row.p /\ v.to = r.row.to
  /\ r.op = "collect" => \E v \in reviews : v.p = r.p /\ v.to = "published"
  /\ r.op \in {"section", "alter", "drop"} => section[r.s] # Unopened

AllFit == \A e \in Editor : Fit(hand[e])

\* Nobody has viewed what is not written, and views are within their bound.
ViewsBounded ==
  \A p \in Post :
    /\ ~Written(p) => Counts(p) = 0
    /\ viewed[p] + Cardinality(Busy(p, {"look", "view"})) <= MaxViews

\* A code is one category's, removed categories included.
IndexHolds ==
  \A s, q \in Section :
    s # q /\ section[s] # Unopened /\ section[q] # Unopened => section[s].code # section[q].code

\* What is public some reviewer let through, in whatever words.
LetThrough ==
  \A p \in Post : Public(p) => \E v \in reviews : v.p = p /\ v.to = "published"

PostsInv ==
  /\ PostsShape /\ AllFit /\ ReviewsHold /\ LetThrough /\ ViewsBounded /\ ViewsAddUp
  /\ IndexHolds

\* The parts of a request.
LEMMA RequestParts ==
  ASSUME NEW r \in PostRequest
  PROVE  /\ r.op \in {"write", "review", "patch", "decide"} =>
              r.p \in Post /\ r.copy \in LooseRow /\ r.from \in PostStatus
         /\ r.op = "create" => r.copy \in LooseRow
         /\ r.op \in {"patch", "decide"} => r.seen \in LooseRow
         /\ r.op = "log" => r.row \in LogRow
         /\ r.op \in {"look", "view", "collect"} => r.p \in Post
         /\ r.op = "look" => r.seen \in Nat
         /\ r.op = "collect" => r.v \in Visitor
         /\ r.op \in {"section", "alter", "drop"} => r.s \in Section
         /\ r.op \in {"found", "section", "alter"} => r.copy \in SectionRow
         /\ r.op = "alter" => r.seen \in SectionRow
BY DEF PostRequest, NoHand

\* A post's row after a save: each column is the copy's or the row's, and status and
\* text are the copy's if the row's were those that the save saw.
LEMMA PatchedPost ==
  ASSUME NEW row \in LooseRow, NEW seen \in LooseRow, NEW copy \in LooseRow
  PROVE  /\ Patched(row, seen, copy) \in LooseRow
         /\ Patched(row, seen, copy).status \in {row.status, copy.status}
         /\ Patched(row, seen, copy).views \in {row.views, copy.views}
         /\ Says(row) = Says(seen) => /\ Patched(row, seen, copy).status = copy.status
                                     /\ Patched(row, seen, copy).text = copy.text
BY DEF Patched, LooseRow, Says

\* A category's row after a save.
LEMMA PatchedSection ==
  ASSUME NEW row \in SectionRow, NEW seen \in SectionRow, NEW copy \in SectionRow
  PROVE  Patched(row, seen, copy) \in SectionRow
BY DEF Patched, SectionRow

\* A row that is written is one.
LEMMA WrittenRow ==
  ASSUME PostsShape, NEW p \in Post
  PROVE  /\ Written(p) => post[p] \in LooseRow
         /\ ~Written(p) => post[p].status = "none" /\ ~Public(p)
BY DEF PostsShape, Written, Public, Unwritten

\* An opened category has a row with a code.
LEMMA OpenedRow ==
  ASSUME PostsShape, NEW s \in Section
  PROVE  /\ section[s] # Unopened => section[s] \in SectionRow
         /\ section[s].row \in {"live", "gone"} => section[s] # Unopened
BY DEF PostsShape, Unopened

\* What is in flight about a post, where a step changes one request.
LEMMA BusyChange ==
  ASSUME IsFiniteSet(Editor), NEW e \in Editor,
         \A d \in Editor \ {e} : hand'[d] = hand[d], NEW p, NEW ops
  PROVE  /\ Cardinality(Busy(p, ops)) \in Nat /\ Cardinality(Busy(p, ops)') \in Nat
         /\ Cardinality(Busy(p, ops)') = Cardinality(Busy(p, ops))
              + (IF hand'[e].op \in ops /\ hand'[e].p = p THEN 1 ELSE 0)
              - (IF hand[e].op \in ops /\ hand[e].p = p THEN 1 ELSE 0)
<1> DEFINE A == Busy(p, ops)
           B == Busy(p, ops)'
<1>1. IsFiniteSet(A) /\ IsFiniteSet(B)
  BY FS_Subset DEF Busy
<1>3. A \ {e} = B \ {e}
  BY DEF Busy
<1>4. /\ e \in A <=> hand[e].op \in ops /\ hand[e].p = p
      /\ e \in B <=> hand'[e].op \in ops /\ hand'[e].p = p
  BY DEF Busy
<1> HIDE DEF A, B
<1>5. /\ Cardinality(A) \in Nat /\ Cardinality(B) \in Nat
      /\ Cardinality(B) = Cardinality(A) + (IF e \in B THEN 1 ELSE 0)
                                         - (IF e \in A THEN 1 ELSE 0)
  BY <1>1, <1>3, CountChange
<1> QED
  BY <1>4, <1>5 DEF A, B

\* Views whose row is still to come are counted in Counts.
LEMMA CountsAre ==
  ASSUME NEW p
  PROVE  /\ Counts(p) = viewed[p] + Cardinality(Busy(p, {"view"}))
         /\ Counts(p)' = viewed'[p] + Cardinality(Busy(p, {"view"})')
<1>1. Busy(p, {"view"}) = {e \in Editor : hand[e].op = "view" /\ hand[e].p = p}
  BY DEF Busy
<1>2. Busy(p, {"view"})' = {e \in Editor : hand'[e].op = "view" /\ hand'[e].p = p}
  BY DEF Busy
<1> QED
  BY <1>1, <1>2 DEF Counts

\* A request stays fit while rows, counts and reviews only grow.
LEMMA FitKept ==
  ASSUME NEW r \in PostRequest, Fit(r),
         \A p \in Post : Written(p) => Written(p)',
         \A p \in Post : Counts(p) \in Nat /\ Counts(p)' \in Nat /\ Counts(p) <= Counts(p)',
         reviews \subseteq reviews',
         \A s \in Section : section[s] # Unopened => section'[s] # Unopened
  PROVE  Fit(r)'
<1> DEFINE saves == {"write", "review", "patch", "decide"}
<1>1. /\ r.op \in saves => r.p \in Post /\ r.copy.views \in Nat
      /\ r.op \in {"patch", "decide"} => r.seen.views \in Nat
      /\ r.op \in {"look", "view", "collect"} => r.p \in Post
      /\ r.op = "look" => r.seen \in Nat
      /\ r.op \in {"section", "alter", "drop"} => r.s \in Section
  BY RequestParts DEF LooseRow
<1>2. r.op \in {"write", "review", "patch", "decide", "look", "view", "collect"} => Written(r.p)'
  BY <1>1 DEF Fit
<1>3. /\ r.op \in saves => r.copy.views <= Counts(r.p)'
      /\ r.op \in {"patch", "decide"} => r.seen.views <= Counts(r.p)'
      /\ r.op = "look" => r.seen <= Counts(r.p)'
  BY <1>1 DEF Fit
<1>4. /\ r.op = "log" => \E v \in reviews' : v.p = r.row.p /\ v.to = r.row.to
      /\ r.op = "collect" => \E v \in reviews' : v.p = r.p /\ v.to = "published"
  BY DEF Fit
<1>5. r.op \in {"section", "alter", "drop"} => section'[r.s] # Unopened
  BY <1>1 DEF Fit
<1>6. /\ r.op = "create" => r.copy.status = "pending" /\ r.copy.views = 0
      /\ r.op \in {"write", "patch"} => r.copy.status # "published"
      /\ r.op \in {"review", "decide"} => r.copy.status \in Verdict
  BY DEF Fit
<1> QED
  BY <1>2, <1>3, <1>4, <1>5, <1>6 DEF Fit

-----------------------------------------------------------------------------
(* Posts: what the steps have in common *)

\* What may not be lost for requests in flight to stay fit.
Growing ==
  /\ \A p \in Post : Written(p) => Written(p)'
  /\ \A p \in Post : Counts(p) \in Nat /\ Counts(p)' \in Nat /\ Counts(p) <= Counts(p)'
  /\ reviews \subseteq reviews'
  /\ \A s \in Section : section[s] # Unopened => section'[s] # Unopened

\* One request changes, the others stay fit.
LEMMA HandsKept ==
  ASSUME PostsShape, AllFit, Growing, NEW e \in Editor, NEW r \in PostRequest,
         hand' = [hand EXCEPT ![e] = r], Fit(r)'
  PROVE  hand' \in [Editor -> PostRequest] /\ AllFit'
<1>1. hand' \in [Editor -> PostRequest]
  BY DEF PostsShape
<1>2. ASSUME NEW d \in Editor PROVE Fit(hand[d])'
  <2>1. CASE d = e
    <3>1. hand'[d] = r
      BY <2>1 DEF PostsShape
    <3> QED
      BY <3>1 DEF Fit
  <2>2. CASE d # e
    <3>1. PICK q \in PostRequest : q = hand[d]
      BY DEF PostsShape
    <3>2. hand'[d] = q
      BY <2>2, <3>1 DEF PostsShape
    <3>3. Fit(q)
      BY <3>1 DEF AllFit
    <3>4. Fit(q)'
      BY <3>3, FitKept DEF Growing
    <3> QED
      BY <3>2, <3>4 DEF Fit
  <2> QED
    BY <2>1, <2>2
<1> QED
  BY <1>1, <1>2 DEF AllFit

\* A request that is over is fit.
LEMMA OverIsFit == NoHand \in PostRequest /\ Fit(NoHand)'
BY DEF NoHand, PostRequest, Fit

\* A step that counts no view leaves the counts alone.
LEMMA QuietCounts ==
  ASSUME PostsShape, ViewsBounded, IsFiniteSet(Editor), NEW e \in Editor,
         NEW r \in PostRequest, hand' = [hand EXCEPT ![e] = r], UNCHANGED viewed,
         hand[e].op \notin {"look", "view"}, r.op # "view",
         r.op = "look" =>
           viewed[r.p] + Cardinality(Busy(r.p, {"look", "view"})) < MaxViews
  PROVE  \A p \in Post :
           /\ Counts(p) \in Nat /\ Counts(p)' = Counts(p)
           /\ viewed'[p] + Cardinality(Busy(p, {"look", "view"})') <= MaxViews
<1> SUFFICES ASSUME NEW p \in Post
             PROVE  /\ Counts(p) \in Nat /\ Counts(p)' = Counts(p)
                    /\ viewed'[p] + Cardinality(Busy(p, {"look", "view"})') <= MaxViews
  OBVIOUS
<1>1. viewed[p] \in Nat
  BY DEF PostsShape
<1>0. ASSUME NEW ops
      PROVE  /\ Cardinality(Busy(p, ops)) \in Nat
             /\ Cardinality(Busy(p, ops)') = Cardinality(Busy(p, ops))
                  + (IF r.op \in ops /\ r.p = p THEN 1 ELSE 0)
                  - (IF hand[e].op \in ops /\ hand[e].p = p THEN 1 ELSE 0)
  <2>1. /\ \A d \in Editor \ {e} : hand'[d] = hand[d]
        /\ hand'[e] = r
    BY DEF PostsShape
  <2> QED
    BY <2>1, BusyChange
<1>2. /\ Cardinality(Busy(p, {"view"})) \in Nat
      /\ Cardinality(Busy(p, {"view"})') = Cardinality(Busy(p, {"view"}))
  <2>1. r.op \notin {"view"} /\ hand[e].op \notin {"view"}
    OBVIOUS
  <2> QED
    BY <1>0, <2>1
<1>3. /\ Cardinality(Busy(p, {"look", "view"})) \in Nat
      /\ Cardinality(Busy(p, {"look", "view"})') = Cardinality(Busy(p, {"look", "view"}))
           + (IF r.op \in {"look", "view"} /\ r.p = p THEN 1 ELSE 0)
  <2> DEFINE U == {"look", "view"}
  <2>1. hand[e].op \notin U
    OBVIOUS
  <2> HIDE DEF U
  <2>2. /\ Cardinality(Busy(p, U)) \in Nat
        /\ Cardinality(Busy(p, U)') = Cardinality(Busy(p, U))
             + (IF r.op \in U /\ r.p = p THEN 1 ELSE 0)
    BY <1>0, <2>1
  <2> QED
    BY <2>2 DEF U
<1>4. viewed[p] + Cardinality(Busy(p, {"look", "view"})) <= MaxViews
  BY DEF ViewsBounded
<1>5. Counts(p) \in Nat /\ Counts(p)' = Counts(p)
  BY <1>1, <1>2, CountsAre
<1>6. viewed'[p] + Cardinality(Busy(p, {"look", "view"})') <= MaxViews
  BY <1>1, <1>3, <1>4, PostsAssumption
<1> QED
  BY <1>5, <1>6

\* Then a step that writes no post either leaves the views alone.
LEMMA QuietViews ==
  ASSUME ViewsBounded, ViewsAddUp, UNCHANGED <<post, overlaid>>,
         \A p \in Post :
           /\ Counts(p) \in Nat /\ Counts(p)' = Counts(p)
           /\ viewed'[p] + Cardinality(Busy(p, {"look", "view"})') <= MaxViews
  PROVE  ViewsBounded' /\ ViewsAddUp'
<1>1. \A p \in Post : Written(p)' = Written(p)
  BY DEF Written
<1>2. ViewsBounded'
  BY <1>1 DEF ViewsBounded
<1>3. ViewsAddUp'
  BY <1>1 DEF ViewsAddUp
<1> QED
  BY <1>2, <1>3

\* A request that reads changes no row.
LEMMA ReadKeeps ==
  ASSUME PostsInv, IsFiniteSet(Editor), NEW e \in Editor, NEW r \in PostRequest,
         hand' = [hand EXCEPT ![e] = r], hand[e].op \notin {"look", "view"},
         RowsStay, Fit(r), r.op # "view",
         r.op = "look" =>
           viewed[r.p] + Cardinality(Busy(r.p, {"look", "view"})) < MaxViews
  PROVE  PostsInv'
<1>1. /\ PostsShape /\ AllFit /\ ReviewsHold /\ LetThrough /\ ViewsBounded /\ ViewsAddUp
      /\ IndexHolds
      /\ UNCHANGED <<post, section, viewed, collected, log, reviews, overlaid, torn>>
  BY DEF PostsInv, RowsStay
<1>2. \A p \in Post :
        /\ Counts(p) \in Nat /\ Counts(p)' = Counts(p)
        /\ viewed'[p] + Cardinality(Busy(p, {"look", "view"})') <= MaxViews
  BY <1>1, QuietCounts
<1>3. Growing
  BY <1>1, <1>2 DEF Growing, Written
<1>4. Fit(r)'
  BY <1>3, FitKept DEF Growing
<1>5. hand' \in [Editor -> PostRequest] /\ AllFit'
  BY <1>1, <1>3, <1>4, HandsKept
<1>6. PostsShape'
  BY <1>1, <1>5 DEF PostsShape
<1>7. ViewsBounded' /\ ViewsAddUp'
  BY <1>1, <1>2, QuietViews
<1>8. ReviewsHold' /\ LetThrough' /\ IndexHolds'
  BY <1>1 DEF LetThrough, ReviewsHold, PublicWasReviewed, Public, LogTellsReviews,
              CollectedWasPublic, IndexHolds
<1> QED
  BY <1>5, <1>6, <1>7, <1>8 DEF PostsInv

\* A request that begins is one that reads.
LEMMA BeginKeeps ==
  ASSUME PostsInv, IsFiniteSet(Editor), NEW e \in Editor, NEW r \in PostRequest,
         Takes(e, r), RowsStay, Fit(r), r.op # "view",
         r.op = "look" =>
           viewed[r.p] + Cardinality(Busy(r.p, {"look", "view"})) < MaxViews
  PROVE  PostsInv'
<1>1. hand' = [hand EXCEPT ![e] = r] /\ hand[e].op \notin {"look", "view"}
  BY DEF Takes, NoHand
<1> QED
  BY <1>1, ReadKeeps

-----------------------------------------------------------------------------
(* Posts: the steps *)

\* Whoever begins has read rows that are as they were read.
LEMMA BeginsKeep ==
  ASSUME PostsInv, IsFiniteSet(Editor), NEW e \in Editor,
         \/ \E t \in Text, s \in Section : CreatePost(e, t, s)
         \/ \E p \in Post, t \in Text, s \in Section : ResubmitMine(e, p, t, s)
         \/ \E p \in Post : RemoveMine(e, p) \/ LookAt(e, p)
         \/ \E p \in Post, to \in Verdict : UpdatePostStatus(e, p, to)
         \/ \E p \in Post, v \in Visitor : AddCollect(e, p, v)
         \/ \E c \in SectionCode, on \in BOOLEAN :
              FoundSection(e, c, on) \/ \E s \in Section : SaveSection(e, s, c, on)
         \/ \E s \in Section : RemoveSection(e, s)
  PROVE  PostsInv'
<1>0. /\ PostsShape /\ LetThrough /\ ViewsAddUp
      /\ \A p \in Post : Counts(p) \in Nat
  <2>1. PostsShape /\ LetThrough /\ ViewsAddUp
    BY DEF PostsInv
  <2>2. ASSUME NEW p \in Post PROVE Counts(p) \in Nat
    <3>1. IsFiniteSet(Busy(p, {"view"}))
      BY FS_Subset DEF Busy
    <3>2. Cardinality(Busy(p, {"view"})) \in Nat
      BY <3>1, FS_CardinalityType
    <3> QED
      BY <2>1, <3>2, CountsAre DEF PostsShape
  <2> QED
    BY <2>1, <2>2
<1>1. ASSUME NEW t \in Text, NEW s \in Section, CreatePost(e, t, s)
      PROVE  PostsInv'
  <2> DEFINE r == [op |-> "create",
                   copy |-> [status |-> "pending", text |-> t, under |-> s, views |-> 0]]
  <2>1. Takes(e, r) /\ RowsStay
    BY <1>1 DEF CreatePost
  <2>2. r \in PostRequest
    BY DEF PostRequest, LooseRow, PostStatus
  <2>3. Fit(r)
    BY DEF Fit
  <2> QED
    BY <2>1, <2>2, <2>3, BeginKeeps
<1>2. ASSUME NEW p \in Post, NEW t \in Text, NEW s \in Section, ResubmitMine(e, p, t, s)
      PROVE  PostsInv'
  <2> DEFINE r == [op |-> "write", p |-> p, from |-> post[p].status,
                   copy |-> [post[p] EXCEPT !.status = "pending", !.text = t, !.under = s]]
  <2>1. Takes(e, r) /\ RowsStay /\ post[p] \in LooseRow /\ Written(p)
    BY <1>0, <1>2, WrittenRow DEF ResubmitMine
  <2>2. r \in PostRequest
    BY <2>1 DEF PostRequest, PostStatus, LooseRow
  <2>3. r.copy.views <= Counts(p) /\ r.copy.status = "pending"
    BY <1>0, <2>1 DEF ViewsAddUp, LooseRow
  <2>4. Fit(r)
    BY <2>1, <2>3 DEF Fit
  <2> QED
    BY <2>1, <2>2, <2>4, BeginKeeps
<1>3. ASSUME NEW p \in Post, RemoveMine(e, p)
      PROVE  PostsInv'
  <2> DEFINE r == [op |-> "write", p |-> p, from |-> post[p].status,
                   copy |-> [post[p] EXCEPT !.status = "offline"]]
  <2>1. Takes(e, r) /\ RowsStay /\ post[p] \in LooseRow /\ Written(p)
    BY <1>0, <1>3, WrittenRow DEF RemoveMine
  <2>2. r \in PostRequest
    BY <2>1 DEF PostRequest, PostStatus, LooseRow
  <2>3. r.copy.views <= Counts(p) /\ r.copy.status = "offline"
    BY <1>0, <2>1 DEF ViewsAddUp, LooseRow
  <2>4. Fit(r)
    BY <2>1, <2>3 DEF Fit
  <2> QED
    BY <2>1, <2>2, <2>4, BeginKeeps
<1>4. ASSUME NEW p \in Post, LookAt(e, p)
      PROVE  PostsInv'
  <2> DEFINE r == [op |-> "look", p |-> p, seen |-> post[p].views]
  <2>1. Takes(e, r) /\ RowsStay /\ post[p] \in LooseRow /\ Written(p)
    BY <1>0, <1>4, WrittenRow DEF LookAt
  <2>2. r \in PostRequest
    BY <2>1 DEF PostRequest, LooseRow
  <2>3. Fit(r)
    BY <1>0, <2>1 DEF ViewsAddUp, Fit
  <2>4. Busy(p, {"look", "view"})
          = {d \in Editor : hand[d].op \in {"look", "view"} /\ hand[d].p = p}
    BY DEF Busy
  <2>5. viewed[p] + Cardinality(Busy(p, {"look", "view"})) < MaxViews
    BY <1>4, <2>4 DEF LookAt
  <2> QED
    BY <2>1, <2>2, <2>3, <2>5, BeginKeeps
<1>5. ASSUME NEW p \in Post, NEW to \in Verdict, UpdatePostStatus(e, p, to)
      PROVE  PostsInv'
  <2> DEFINE r == [op |-> "review", p |-> p, from |-> post[p].status,
                   copy |-> [post[p] EXCEPT !.status = to]]
  <2>1. Takes(e, r) /\ RowsStay /\ post[p] \in LooseRow /\ Written(p)
    BY <1>0, <1>5, WrittenRow DEF UpdatePostStatus
  <2>2. r \in PostRequest
    BY <2>1, PostsAssumption DEF PostRequest, PostStatus, LooseRow
  <2>3. r.copy.views <= Counts(p) /\ r.copy.status = to
    BY <1>0, <2>1 DEF ViewsAddUp, LooseRow
  <2>4. Fit(r)
    BY <2>1, <2>3 DEF Fit
  <2> QED
    BY <2>1, <2>2, <2>4, BeginKeeps
<1>6. ASSUME NEW p \in Post, NEW v \in Visitor, AddCollect(e, p, v)
      PROVE  PostsInv'
  <2> DEFINE r == [op |-> "collect", p |-> p, v |-> v]
  <2>1. Takes(e, r) /\ RowsStay /\ Written(p) /\ Public(p)
    BY <1>6 DEF AddCollect, MayCollect
  <2>2. r \in PostRequest
    BY DEF PostRequest
  <2>3. \E x \in reviews : x.p = p /\ x.to = "published"
    BY <1>0, <2>1 DEF LetThrough
  <2>4. Fit(r)
    BY <2>1, <2>3 DEF Fit
  <2> QED
    BY <2>1, <2>2, <2>4, BeginKeeps
<1>7. ASSUME NEW s \in Section, NEW c \in SectionCode, NEW on \in BOOLEAN,
             SaveSection(e, s, c, on)
      PROVE  PostsInv'
  <2> DEFINE r == [op |-> "section", s |-> s, copy |-> Offer(c, on)]
  <2>1. Takes(e, r) /\ RowsStay /\ section[s] # Unopened
    BY <1>7 DEF SaveSection, Unopened
  <2>2. r \in PostRequest
    BY DEF PostRequest, SectionRow, Offer
  <2>3. Fit(r)
    BY <2>1 DEF Fit
  <2> QED
    BY <2>1, <2>2, <2>3, BeginKeeps
<1>9. ASSUME NEW c \in SectionCode, NEW on \in BOOLEAN, FoundSection(e, c, on)
      PROVE  PostsInv'
  <2> DEFINE r == [op |-> "found", copy |-> Offer(c, on)]
  <2>1. Takes(e, r) /\ RowsStay
    BY <1>9 DEF FoundSection
  <2>2. r \in PostRequest
    BY DEF PostRequest, SectionRow, Offer
  <2>3. Fit(r)
    BY DEF Fit
  <2> QED
    BY <2>1, <2>2, <2>3, BeginKeeps
<1>8. ASSUME NEW s \in Section, RemoveSection(e, s)
      PROVE  PostsInv'
  <2> DEFINE r == [op |-> "drop", s |-> s]
  <2>1. Takes(e, r) /\ RowsStay /\ section[s] # Unopened
    BY <1>8 DEF RemoveSection, Unopened
  <2>2. r \in PostRequest
    BY DEF PostRequest
  <2>3. Fit(r)
    BY <2>1 DEF Fit
  <2> QED
    BY <2>1, <2>2, <2>3, BeginKeeps
<1> QED
  BY <1>1, <1>2, <1>3, <1>4, <1>5, <1>6, <1>7, <1>8, <1>9

\* The SELECT of a save remembers what it saw.
LEMMA SelectsKeep ==
  ASSUME PostsInv, IsFiniteSet(Editor), NEW e \in Editor, SelectPost(e) \/ SelectSection(e)
  PROVE  PostsInv'
<1> PICK w \in PostRequest : w = hand[e]
  BY DEF PostsInv, PostsShape
<1>1. PostsShape /\ ViewsAddUp /\ Fit(w)
  BY DEF PostsInv, AllFit
<1>2. CASE SelectPost(e)
  <2> DEFINE r == [op |-> IF w.op = "write" THEN "patch" ELSE "decide",
                   p |-> w.p, from |-> w.from, copy |-> w.copy, seen |-> post[w.p]]
  <2>1. /\ w.op \in {"write", "review"} /\ hand' = [hand EXCEPT ![e] = r] /\ RowsStay
        /\ hand[e].op \notin {"look", "view"}
    BY <1>2 DEF SelectPost
  <2>2. /\ w.p \in Post /\ w.copy \in LooseRow /\ w.from \in PostStatus
        /\ post[w.p] \in LooseRow /\ post[w.p].views <= Counts(w.p)
    BY <1>1, <2>1, RequestParts, WrittenRow DEF Fit, ViewsAddUp
  <2>3. r \in PostRequest
    BY <2>2 DEF PostRequest
  <2>4. Fit(r)
    BY <1>1, <2>1, <2>2 DEF Fit
  <2>5. r.op \notin {"view", "look"}
    OBVIOUS
  <2> QED
    BY <2>1, <2>3, <2>4, <2>5, ReadKeeps
<1>3. CASE SelectSection(e)
  <2> DEFINE r == [op |-> "alter", s |-> w.s, copy |-> w.copy, seen |-> section[w.s]]
  <2>1. /\ w.op = "section" /\ hand' = [hand EXCEPT ![e] = r] /\ RowsStay
        /\ hand[e].op \notin {"look", "view"}
    BY <1>3 DEF SelectSection
  <2>2. w.s \in Section /\ w.copy \in SectionRow /\ section[w.s] \in SectionRow
    BY <1>1, <2>1, RequestParts, OpenedRow DEF Fit
  <2>3. r \in PostRequest
    BY <2>2 DEF PostRequest
  <2>4. Fit(r)
    BY <1>1, <2>1 DEF Fit
  <2>5. r.op \notin {"view", "look"}
    OBVIOUS
  <2> QED
    BY <2>1, <2>3, <2>4, <2>5, ReadKeeps
<1> QED
  BY <1>2, <1>3

\* A row is saved: it has no more views than were counted.
LEMMA StoreViews ==
  ASSUME PostsShape, ViewsBounded, ViewsAddUp, NEW p \in Post, NEW row \in LooseRow,
         row.views <= Counts(p),
         post' = [post EXCEPT ![p] = row],
         Written(p) /\ row.views # post[p].views => p \in overlaid',
         overlaid \subseteq overlaid',
         \A q \in Post :
           /\ Counts(q) \in Nat /\ Counts(q)' = Counts(q)
           /\ viewed'[q] + Cardinality(Busy(q, {"look", "view"})') <= MaxViews
  PROVE  /\ post' \in [Post -> LooseRow \union {Unwritten}]
         /\ \A q \in Post : Written(q) => Written(q)'
         /\ ViewsBounded' /\ ViewsAddUp'
<1>1. /\ \A q \in Post \ {p} : post'[q] = post[q]
      /\ post'[p] = row
  BY DEF PostsShape
<1>0. row \in LooseRow /\ row # Unwritten /\ row.views \in Nat
  BY DEF LooseRow, Unwritten
<1>2. post' \in [Post -> LooseRow \union {Unwritten}]
  BY <1>0, <1>1 DEF PostsShape
<1>3. \A q \in Post : Written(q) => Written(q)'
  BY <1>0, <1>1 DEF Written
<1>4. ViewsBounded'
  BY <1>3 DEF ViewsBounded
<1>5. ASSUME NEW q \in Post, Written(q)'
      PROVE  /\ post'[q].views <= Counts(q)'
             /\ q \in overlaid' \/ post'[q].views = Counts(q)'
  <2>1. CASE q # p
    BY <1>1, <1>5, <2>1 DEF ViewsAddUp, Written
  <2>2. CASE q = p /\ Written(p)
    BY <1>0, <1>1, <2>2 DEF ViewsAddUp
  <2>3. CASE q = p /\ ~Written(p)
    BY <1>0, <1>1, <2>3 DEF ViewsBounded
  <2> QED
    BY <2>1, <2>2, <2>3
<1>6. ViewsAddUp'
  BY <1>5 DEF ViewsAddUp
<1> QED
  BY <1>2, <1>3, <1>4, <1>6

\* A post is inserted: nobody has viewed it.
LEMMA InsertPostKeeps ==
  ASSUME PostsInv, IsFiniteSet(Editor), NEW e \in Editor, NEW p \in Post, InsertPost(e, p)
  PROVE  PostsInv'
<1> PICK w \in PostRequest : w = hand[e]
  BY DEF PostsInv, PostsShape
<1> DEFINE row == w.copy
<1>1. /\ PostsShape /\ AllFit /\ ReviewsHold /\ LetThrough /\ ViewsBounded /\ ViewsAddUp
      /\ IndexHolds
      /\ w.op = "create" /\ hand' = [hand EXCEPT ![e] = NoHand]
      /\ post' = [post EXCEPT ![p] = row] /\ ~Written(p)
      /\ UNCHANGED <<section, viewed, collected, log, reviews, overlaid, torn>>
  BY DEF PostsInv, InsertPost, Leaves, Written
<1>2. row \in LooseRow /\ row.status = "pending" /\ row.views = 0
  BY <1>1, RequestParts DEF AllFit, Fit
<1>3. post'[p] = row
  BY <1>1 DEF PostsShape
<1>4. NoHand \in PostRequest /\ Fit(NoHand)' /\ NoHand.op = "none" /\ hand[e].op = "create"
  BY <1>1, OverIsFit DEF NoHand
<1> HIDE DEF row
<1>5. \A q \in Post :
        /\ Counts(q) \in Nat /\ Counts(q)' = Counts(q)
        /\ viewed'[q] + Cardinality(Busy(q, {"look", "view"})') <= MaxViews
  BY <1>1, <1>4, QuietCounts
<1>6. row.views <= Counts(p)
  BY <1>2, <1>5
<1>7. /\ post' \in [Post -> LooseRow \union {Unwritten}]
      /\ \A q \in Post : Written(q) => Written(q)'
      /\ ViewsBounded' /\ ViewsAddUp'
  BY <1>1, <1>2, <1>5, <1>6, StoreViews
<1>8. Growing
  BY <1>1, <1>5, <1>7 DEF Growing
<1>9. hand' \in [Editor -> PostRequest] /\ AllFit'
  BY <1>1, <1>4, <1>8, HandsKept
<1>10. PostsShape'
  BY <1>1, <1>7, <1>9 DEF PostsShape
<1>11. \A q \in Post : Public(q)' => Public(q) /\ post'[q] = post[q]
  BY <1>1, <1>2, <1>3 DEF Public, PostsShape
<1>12. ReviewsHold' /\ LetThrough' /\ IndexHolds'
  BY <1>1, <1>11 DEF LetThrough, ReviewsHold, PublicWasReviewed, LogTellsReviews,
                     CollectedWasPublic, IndexHolds
<1> QED
  BY <1>7, <1>9, <1>10, <1>12 DEF PostsInv

\* The UPDATE of a save, whatever becomes of the request: what it leaves of the row,
\* its status and its text.
LEMMA UpdatesKeep ==
  ASSUME PostsInv, IsFiniteSet(Editor), NEW e \in Editor, NEW w \in PostRequest,
         w = hand[e], w.op \in {"patch", "decide"}, Updates(w), NEW r \in PostRequest,
         hand' = [hand EXCEPT ![e] = r], r.op \notin {"look", "view"},
         reviews \subseteq reviews', UNCHANGED <<section, viewed>>,
         Fit(r)'
  PROVE  /\ hand' \in [Editor -> PostRequest] /\ AllFit'
         /\ post' \in [Post -> LooseRow \union {Unwritten}]
         /\ overlaid' \subseteq Post /\ torn' \subseteq Post
         /\ ViewsBounded' /\ ViewsAddUp'
         /\ w.p \in Post /\ w.copy \in LooseRow
         /\ \A q \in Post \ {w.p} : post'[q] = post[q] /\ (q \in torn' <=> q \in torn)
         /\ post'[w.p].status \in {post[w.p].status, w.copy.status}
         /\ w.p \notin torn' => /\ post'[w.p].status = w.copy.status
                               /\ post'[w.p].text = w.copy.text
<1> DEFINE p == w.p
           row == Patched(post[w.p], w.seen, w.copy)
<1>1. PostsShape /\ AllFit /\ ViewsBounded /\ ViewsAddUp
  BY DEF PostsInv
<1>2. /\ p \in Post /\ w.copy \in LooseRow /\ w.seen \in LooseRow /\ Fit(w)
  BY <1>1, RequestParts DEF AllFit
<1>3. Written(p) /\ post[p] \in LooseRow
  BY <1>1, <1>2, WrittenRow DEF Fit
<1>4. /\ row \in LooseRow /\ row.status \in {post[p].status, w.copy.status}
      /\ row.views \in {post[p].views, w.copy.views}
      /\ Says(post[p]) = Says(w.seen) => row.status = w.copy.status /\ row.text = w.copy.text
  BY <1>2, <1>3, PatchedPost
<1>5. /\ post' = [post EXCEPT ![p] = row]
      /\ overlaid' = IF post'[p].views # post[p].views THEN overlaid \union {p} ELSE overlaid
      /\ torn' = IF Says(post[p]) = Says(w.seen) THEN torn \ {p} ELSE torn \union {p}
  BY DEF Updates, Updated
<1> HIDE DEF p, row
<1>6. post'[p] = row /\ \A q \in Post \ {p} : post'[q] = post[q]
  BY <1>1, <1>2, <1>5 DEF PostsShape
<1>7. /\ overlaid' \subseteq Post /\ overlaid \subseteq overlaid' /\ torn' \subseteq Post
      /\ row.views # post[p].views => p \in overlaid'
  BY <1>1, <1>2, <1>5, <1>6 DEF PostsShape
<1>8. row.views <= Counts(p)
  <2>1. w.copy.views <= Counts(p) /\ post[p].views <= Counts(p)
    BY <1>1, <1>2, <1>3 DEF Fit, ViewsAddUp, p
  <2> QED
    BY <1>4, <2>1
<1>9. hand[e].op \notin {"look", "view"} /\ r.op # "view" /\ r.op # "look"
  OBVIOUS
<1>10. \A q \in Post :
        /\ Counts(q) \in Nat /\ Counts(q)' = Counts(q)
        /\ viewed'[q] + Cardinality(Busy(q, {"look", "view"})') <= MaxViews
  BY <1>1, <1>9, QuietCounts
<1>11. /\ post' \in [Post -> LooseRow \union {Unwritten}]
       /\ \A q \in Post : Written(q) => Written(q)'
       /\ ViewsBounded' /\ ViewsAddUp'
  BY <1>1, <1>2, <1>4, <1>5, <1>7, <1>8, <1>10, StoreViews
<1>12. Growing
  BY <1>10, <1>11 DEF Growing
<1>13. hand' \in [Editor -> PostRequest] /\ AllFit'
  BY <1>1, <1>12, HandsKept
<1>14. \A q \in Post \ {p} : q \in torn' <=> q \in torn
  BY <1>5
<1>15. p \notin torn' => row.status = w.copy.status /\ row.text = w.copy.text
  BY <1>4, <1>5
<1> QED
  BY <1>2, <1>4, <1>6, <1>7, <1>11, <1>13, <1>14, <1>15 DEF p

\* The save of an author's copy: it publishes nothing.
LEMMA SavePostKeeps ==
  ASSUME PostsInv, IsFiniteSet(Editor), NEW e \in Editor, SavePost(e)
  PROVE  PostsInv'
<1> PICK w \in PostRequest : w = hand[e]
  BY DEF PostsInv, PostsShape
<1>1. /\ PostsShape /\ AllFit /\ ReviewsHold /\ LetThrough /\ IndexHolds
      /\ w.op = "patch" /\ Updates(w) /\ hand' = [hand EXCEPT ![e] = NoHand]
      /\ UNCHANGED <<section, viewed, collected, log, reviews>>
  BY DEF PostsInv, SavePost, Leaves
<1>2. w.copy.status # "published"
  BY <1>1 DEF AllFit, Fit
<1>3. NoHand \in PostRequest /\ Fit(NoHand)' /\ NoHand.op \notin {"look", "view"}
  BY OverIsFit DEF NoHand
<1>4. /\ hand' \in [Editor -> PostRequest] /\ AllFit'
      /\ post' \in [Post -> LooseRow \union {Unwritten}]
      /\ overlaid' \subseteq Post /\ torn' \subseteq Post
      /\ ViewsBounded' /\ ViewsAddUp'
      /\ \A q \in Post \ {w.p} : post'[q] = post[q] /\ (q \in torn' <=> q \in torn)
      /\ post'[w.p].status \in {post[w.p].status, w.copy.status}
      /\ w.p \notin torn' => post'[w.p].status = w.copy.status
  BY <1>1, <1>3, UpdatesKeep
<1>5. PostsShape'
  BY <1>1, <1>4 DEF PostsShape
<1>6. \A q \in Post : Public(q)' => Public(q)
  BY <1>2, <1>4 DEF Public
<1>7. \A q \in Post : Public(q)' /\ q \notin torn' => q \notin torn /\ post'[q] = post[q]
  BY <1>2, <1>4 DEF Public
<1>8. ReviewsHold' /\ LetThrough' /\ IndexHolds'
  BY <1>1, <1>6, <1>7 DEF LetThrough, ReviewsHold, PublicWasReviewed, LogTellsReviews,
                          CollectedWasPublic, IndexHolds
<1> QED
  BY <1>4, <1>5, <1>8 DEF PostsInv

\* The save of a reviewer's copy: the review is what the row says afterwards, if the row
\* did not change since the SELECT.
LEMMA SaveReviewKeeps ==
  ASSUME PostsInv, IsFiniteSet(Editor), NEW e \in Editor, SaveReview(e)
  PROVE  PostsInv'
<1> PICK w \in PostRequest : w = hand[e]
  BY DEF PostsInv, PostsShape
<1> DEFINE p == w.p
           row == w.copy
           note == [p |-> p, from |-> w.from, to |-> row.status]
           r == [op |-> "log", row |-> note]
           done == [p |-> p, text |-> row.text, to |-> row.status]
<1>1. /\ PostsShape /\ AllFit /\ ReviewsHold /\ LetThrough /\ IndexHolds
      /\ w.op = "decide" /\ Updates(w) /\ hand' = [hand EXCEPT ![e] = r]
      /\ reviews' = reviews \union {done}
      /\ UNCHANGED <<section, viewed, collected, log>>
  BY DEF PostsInv, SaveReview
<1>2. /\ p \in Post /\ row \in LooseRow /\ w.from \in PostStatus /\ Fit(w)
  BY <1>1, RequestParts DEF AllFit
<1>3. row.status \in Verdict
  BY <1>1, <1>2 DEF Fit
<1>4. r \in PostRequest /\ done \in Review /\ done \in reviews'
  BY <1>1, <1>2, <1>3 DEF PostRequest, LogRow, Review, LooseRow
<1>5. /\ r.op = "log" /\ r.row.p = done.p /\ r.row.to = done.to
      /\ done.p = p /\ done.text = row.text /\ done.to = row.status
  OBVIOUS
<1>6. Fit(r)'
  BY <1>4, <1>5 DEF Fit
<1> HIDE DEF r, done
<1>7. /\ hand' \in [Editor -> PostRequest] /\ AllFit'
      /\ post' \in [Post -> LooseRow \union {Unwritten}]
      /\ overlaid' \subseteq Post /\ torn' \subseteq Post
      /\ ViewsBounded' /\ ViewsAddUp'
      /\ \A q \in Post \ {p} : post'[q] = post[q] /\ (q \in torn' <=> q \in torn)
      /\ post'[p].status \in {post[p].status, row.status}
      /\ p \notin torn' => post'[p].status = row.status /\ post'[p].text = row.text
  BY <1>1, <1>4, <1>5, <1>6, UpdatesKeep
<1> HIDE DEF p, row
<1>8. PostsShape'
  BY <1>1, <1>4, <1>7 DEF PostsShape
<1>9. PublicWasReviewed'
  <2>1. SUFFICES ASSUME NEW q \in Post \ torn', Public(q)'
                 PROVE  [p |-> q, text |-> post'[q].text, to |-> "published"] \in reviews'
    BY DEF PublicWasReviewed
  <2>2. CASE q = p
    <3>1. row.status = "published" /\ post'[p].text = row.text
      BY <1>7, <2>1, <2>2 DEF Public
    <3>2. done = [p |-> p, text |-> row.text, to |-> "published"]
      BY <3>1 DEF done, p, row
    <3> QED
      BY <1>4, <2>2, <3>1, <3>2
  <2>3. CASE q # p
    <3>1. post'[q] = post[q] /\ q \in Post \ torn
      BY <1>7, <2>1, <2>3
    <3> QED
      BY <1>1, <2>1, <3>1 DEF ReviewsHold, PublicWasReviewed, Public
  <2> QED
    BY <2>2, <2>3
<1>10. LetThrough'
  <2>1. SUFFICES ASSUME NEW q \in Post, Public(q)'
                 PROVE  \E v \in reviews' : v.p = q /\ v.to = "published"
    BY DEF LetThrough
  <2>2. CASE Public(q)
    BY <1>1, <2>2 DEF LetThrough
  <2>3. CASE ~Public(q)
    <3>1. q = p /\ row.status = "published"
      BY <1>7, <2>1, <2>3 DEF Public
    <3> QED
      BY <1>4, <1>5, <3>1
  <2> QED
    BY <2>2, <2>3
<1>11. ReviewsHold' /\ IndexHolds'
  BY <1>1, <1>9 DEF ReviewsHold, LogTellsReviews, CollectedWasPublic, IndexHolds
<1> QED
  BY <1>7, <1>8, <1>10, <1>11 DEF PostsInv

\* The steps of a request that touch neither posts nor views, and end it.
LEMMA EndKeeps ==
  ASSUME PostsInv, IsFiniteSet(Editor), NEW e \in Editor,
         hand' = [hand EXCEPT ![e] = NoHand], hand[e].op \notin {"look", "view"},
         UNCHANGED <<post, viewed, reviews, overlaid, torn>>,
         section' \in [Section -> SectionRow \union {Unopened}],
         \A s \in Section : section[s] # Unopened => section'[s] # Unopened,
         collected' \subseteq Post \X Visitor, log' \subseteq LogRow,
         IndexHolds', ReviewsHold', LetThrough'
  PROVE  PostsInv'
<1>1. PostsShape /\ AllFit /\ ViewsBounded /\ ViewsAddUp
  BY DEF PostsInv
<1>2. NoHand \in PostRequest /\ Fit(NoHand)' /\ NoHand.op = "none"
  BY OverIsFit DEF NoHand
<1>3. \A p \in Post :
        /\ Counts(p) \in Nat /\ Counts(p)' = Counts(p)
        /\ viewed'[p] + Cardinality(Busy(p, {"look", "view"})') <= MaxViews
  BY <1>1, <1>2, QuietCounts
<1>4. Growing
  BY <1>3 DEF Growing, Written
<1>5. hand' \in [Editor -> PostRequest] /\ AllFit'
  BY <1>1, <1>2, <1>4, HandsKept
<1>6. ViewsBounded' /\ ViewsAddUp'
  BY <1>1, <1>3, QuietViews
<1>7. PostsShape'
  BY <1>1, <1>5 DEF PostsShape
<1> QED
  BY <1>5, <1>6, <1>7 DEF PostsInv

\* The log is written, or is not; a collection is; a category is, or is removed.
LEMMA EndsKeep ==
  ASSUME PostsInv, IsFiniteSet(Editor), NEW e \in Editor,
         \/ WriteAuditLog(e) \/ SaveCollect(e) \/ StoreSection(e) \/ DropSection(e)
         \/ \E s \in Section : InsertSection(e, s)
  PROVE  PostsInv'
<1> PICK w \in PostRequest : w = hand[e]
  BY DEF PostsInv, PostsShape
<1>1. /\ PostsShape /\ ReviewsHold /\ LetThrough /\ IndexHolds /\ Fit(w)
      /\ section \in [Section -> SectionRow \union {Unopened}]
      /\ collected \subseteq Post \X Visitor /\ log \subseteq LogRow
  BY DEF PostsInv, PostsShape, AllFit
<1>2. CASE WriteAuditLog(e)
  <2>1. /\ w.op = "log" /\ log' \subseteq log \union {w.row}
        /\ hand' = [hand EXCEPT ![e] = NoHand]
        /\ UNCHANGED <<post, section, viewed, collected, reviews, overlaid, torn>>
    BY <1>2 DEF WriteAuditLog, Leaves
  <2>2. w.row \in LogRow /\ \E v \in reviews : v.p = w.row.p /\ v.to = w.row.to
    BY <1>1, <2>1, RequestParts DEF Fit
  <2>3. ReviewsHold' /\ LetThrough' /\ IndexHolds'
    BY <1>1, <2>1, <2>2 DEF LetThrough, ReviewsHold, PublicWasReviewed, Public, LogTellsReviews,
                            CollectedWasPublic, IndexHolds
  <2> QED
    BY <1>1, <2>1, <2>2, <2>3, EndKeeps
<1>3. CASE SaveCollect(e)
  <2> DEFINE k == <<w.p, w.v>>
  <2>1. /\ w.op = "collect" /\ collected' = collected \union {k}
        /\ hand' = [hand EXCEPT ![e] = NoHand]
        /\ UNCHANGED <<post, section, viewed, log, reviews, overlaid, torn>>
    BY <1>3 DEF SaveCollect, Leaves
  <2>2. /\ k \in Post \X Visitor /\ k[1] = w.p
        /\ \E v \in reviews : v.p = w.p /\ v.to = "published"
    BY <1>1, <2>1, RequestParts DEF Fit
  <2> HIDE DEF k
  <2>3. CollectedWasPublic'
    BY <1>1, <2>1, <2>2 DEF ReviewsHold, CollectedWasPublic
  <2>4. ReviewsHold' /\ LetThrough' /\ IndexHolds'
    BY <1>1, <2>1, <2>3 DEF LetThrough, ReviewsHold, PublicWasReviewed, Public, LogTellsReviews,
                            IndexHolds
  <2> QED
    BY <1>1, <2>1, <2>2, <2>4, EndKeeps
<1>4. ASSUME NEW q \in Section, NEW row \in SectionRow, Stores(q, row), Leaves(e),
             w.op \notin {"look", "view"}
      PROVE  PostsInv'
  <2>1. /\ section' = IF Indexed(q, row.code) THEN [section EXCEPT ![q] = row] ELSE section
        /\ hand' = [hand EXCEPT ![e] = NoHand]
        /\ UNCHANGED <<post, viewed, collected, log, reviews, overlaid, torn>>
    BY <1>4 DEF Stores, Leaves
  <2>2. section' \in [Section -> SectionRow \union {Unopened}]
    BY <1>1, <2>1
  <2>3. row # Unopened
    BY DEF SectionRow, Unopened
  <2>4. \A s \in Section : section[s] # Unopened => section'[s] # Unopened
    BY <1>1, <2>1, <2>3
  <2>5. IndexHolds'
    <3>1. CASE section' = section
      BY <1>1, <3>1 DEF IndexHolds
    <3>2. CASE Indexed(q, row.code) /\ section' = [section EXCEPT ![q] = row]
      <4>1. section'[q] = row /\ \A s \in Section \ {q} : section'[s] = section[s]
        BY <1>1, <3>2
      <4>2. \A s \in Section \ {q} : section[s] # Unopened => section[s].code # row.code
        BY <3>2 DEF Indexed
      <4> QED
        BY <1>1, <4>1, <4>2 DEF IndexHolds
    <3> QED
      BY <2>1, <3>1, <3>2
  <2>6. ReviewsHold' /\ LetThrough'
    BY <1>1, <2>1 DEF LetThrough, ReviewsHold, PublicWasReviewed, Public, LogTellsReviews,
                      CollectedWasPublic
  <2> QED
    BY <1>1, <1>4, <2>1, <2>2, <2>4, <2>5, <2>6, EndKeeps
<1>6. CASE StoreSection(e)
  <2> DEFINE row == Patched(section[w.s], w.seen, w.copy)
  <2>1. w.op = "alter" /\ Stores(w.s, row) /\ Leaves(e)
    BY <1>6 DEF StoreSection
  <2>2. w.s \in Section /\ w.copy \in SectionRow /\ w.seen \in SectionRow
    BY <2>1, RequestParts
  <2>3. row \in SectionRow
    BY <1>1, <2>1, <2>2, OpenedRow, PatchedSection DEF Fit
  <2> HIDE DEF row
  <2> QED
    BY <1>4, <2>1, <2>2, <2>3
<1>7. ASSUME NEW s \in Section, InsertSection(e, s) PROVE PostsInv'
  <2>1. w.op = "found" /\ Stores(s, w.copy) /\ Leaves(e)
    BY <1>7 DEF InsertSection
  <2>2. w.copy \in SectionRow
    BY <2>1, RequestParts
  <2> QED
    BY <1>4, <2>1, <2>2
<1>5. CASE DropSection(e)
  <2>1. /\ w.op = "drop" /\ w.s \in Section
        /\ section' = [section EXCEPT ![w.s].row = "gone"]
        /\ hand' = [hand EXCEPT ![e] = NoHand]
        /\ UNCHANGED <<post, viewed, collected, log, reviews, overlaid, torn>>
    BY <1>5, RequestParts DEF DropSection, Leaves
  <2>2. section[w.s] \in SectionRow
    BY <1>1, <2>1, OpenedRow DEF Fit
  <2>3. section' \in [Section -> SectionRow \union {Unopened}]
    BY <1>1, <2>1, <2>2 DEF SectionRow
  <2>4. \A s \in Section : /\ section'[s].code = section[s].code
                           /\ section[s] # Unopened <=> section'[s] # Unopened
    BY <1>1, <2>1, <2>2 DEF SectionRow, Unopened
  <2>5. IndexHolds'
    BY <1>1, <2>4 DEF IndexHolds
  <2>6. ReviewsHold' /\ LetThrough'
    BY <1>1, <2>1 DEF LetThrough, ReviewsHold, PublicWasReviewed, Public, LogTellsReviews,
                      CollectedWasPublic
  <2> QED
    BY <1>1, <2>1, <2>3, <2>4, <2>5, <2>6, EndKeeps
<1> QED
  BY <1>2, <1>3, <1>5, <1>6, <1>7

\* The database counts a view, of a post that nothing takes away.
LEMMA CountViewKeeps ==
  ASSUME PostsInv, IsFiniteSet(Editor), NEW e \in Editor, CountView(e)
  PROVE  PostsInv'
<1> PICK w \in PostRequest : w = hand[e]
  BY DEF PostsInv, PostsShape
<1> DEFINE p == w.p
           r == [op |-> "view", p |-> p]
<1>1. /\ PostsShape /\ AllFit /\ ReviewsHold /\ LetThrough /\ ViewsBounded /\ ViewsAddUp
      /\ IndexHolds
      /\ w.op = "look" /\ hand' = [hand EXCEPT ![e] = r]
      /\ post' = [post EXCEPT ![p].views = post[p].views + 1]
      /\ UNCHANGED <<section, viewed, collected, log, reviews, overlaid, torn>>
  BY DEF PostsInv, CountView, Counted
<1>2. p \in Post /\ Written(p) /\ post[p] \in LooseRow /\ r \in PostRequest
  BY <1>1, RequestParts, WrittenRow DEF AllFit, Fit, PostRequest
<1>3. /\ post' \in [Post -> LooseRow \union {Unwritten}]
      /\ \A q \in Post \ {p} : post'[q] = post[q]
      /\ post'[p] \in LooseRow /\ post'[p].views = post[p].views + 1
      /\ post'[p].status = post[p].status /\ post'[p].text = post[p].text
  BY <1>1, <1>2 DEF PostsShape, LooseRow
<1>4. /\ \A d \in Editor \ {e} : hand'[d] = hand[d]
      /\ hand'[e] = r /\ r.op = "view" /\ r.p = p
  BY <1>1 DEF PostsShape
<1> HIDE DEF p, r
<1>5. ASSUME NEW q \in Post
      PROVE  /\ Counts(q) \in Nat /\ Counts(q)' = Counts(q) + (IF q = p THEN 1 ELSE 0)
             /\ viewed'[q] + Cardinality(Busy(q, {"look", "view"})') <= MaxViews
  <2>1. viewed[q] \in Nat /\ viewed' = viewed
    BY <1>1 DEF PostsShape
  <2>2. ASSUME NEW ops
        PROVE  /\ Cardinality(Busy(q, ops)) \in Nat
               /\ Cardinality(Busy(q, ops)') = Cardinality(Busy(q, ops))
                    + (IF "view" \in ops /\ p = q THEN 1 ELSE 0)
                    - (IF "look" \in ops /\ p = q THEN 1 ELSE 0)
    <3>1. hand'[e].op = "view" /\ hand'[e].p = p /\ hand[e].op = "look" /\ hand[e].p = p
      BY <1>1, <1>4 DEF p
    <3>2. /\ Cardinality(Busy(q, ops)) \in Nat
          /\ Cardinality(Busy(q, ops)') = Cardinality(Busy(q, ops))
                    + (IF hand'[e].op \in ops /\ hand'[e].p = q THEN 1 ELSE 0)
                    - (IF hand[e].op \in ops /\ hand[e].p = q THEN 1 ELSE 0)
      BY <1>4, BusyChange
    <3> QED
      BY <3>1, <3>2
  <2>3. /\ Cardinality(Busy(q, {"view"})) \in Nat
        /\ Cardinality(Busy(q, {"view"})') = Cardinality(Busy(q, {"view"}))
             + (IF q = p THEN 1 ELSE 0)
    <3>1. "view" \in {"view"} /\ "look" \notin {"view"}
      OBVIOUS
    <3> QED
      BY <2>2, <3>1
  <2>4. Cardinality(Busy(q, {"look", "view"})') = Cardinality(Busy(q, {"look", "view"}))
    <3> DEFINE U == {"look", "view"}
    <3>1. "view" \in U /\ "look" \in U
      OBVIOUS
    <3> HIDE DEF U
    <3>2. Cardinality(Busy(q, U)') = Cardinality(Busy(q, U))
      BY <2>2, <3>1
    <3> QED
      BY <3>2 DEF U
  <2>5. viewed[q] + Cardinality(Busy(q, {"look", "view"})) <= MaxViews
    BY <1>1 DEF ViewsBounded
  <2>6. Counts(q) \in Nat /\ Counts(q)' = Counts(q) + (IF q = p THEN 1 ELSE 0)
    BY <2>1, <2>3, CountsAre
  <2> QED
    BY <2>1, <2>4, <2>5, <2>6
<1>6. \A q \in Post : Written(q) <=> Written(q)'
  BY <1>2, <1>3 DEF Written, LooseRow, Unwritten
<1>7. Growing
  BY <1>1, <1>5, <1>6 DEF Growing
<1>8. Fit(r)'
  BY <1>2, <1>4, <1>6 DEF Fit
<1>9. hand' \in [Editor -> PostRequest] /\ AllFit'
  BY <1>1, <1>2, <1>7, <1>8, HandsKept
<1>10. PostsShape'
  BY <1>1, <1>3, <1>9 DEF PostsShape
<1>11. ViewsBounded'
  <2>1. ~Written(p)' => FALSE
    BY <1>2, <1>6
  <2> QED
    BY <1>1, <1>5, <1>6, <2>1 DEF ViewsBounded
<1>12. ASSUME NEW q \in Post, Written(q)'
       PROVE  /\ post'[q].views <= Counts(q)'
              /\ q \in overlaid' \/ post'[q].views = Counts(q)'
  <2>1. /\ post[q].views <= Counts(q)
        /\ q \in overlaid \/ post[q].views = Counts(q)
    BY <1>1, <1>6, <1>12 DEF ViewsAddUp
  <2>2. post[q].views \in Nat
    BY <1>1, <1>6, <1>12, WrittenRow DEF LooseRow
  <2> QED
    BY <1>1, <1>3, <1>5, <2>1, <2>2
<1>13. ViewsAddUp'
  BY <1>12 DEF ViewsAddUp
<1>14. ReviewsHold' /\ LetThrough' /\ IndexHolds'
  BY <1>1, <1>3 DEF LetThrough, ReviewsHold, PublicWasReviewed, Public, LogTellsReviews,
                    CollectedWasPublic, IndexHolds
<1> QED
  BY <1>9, <1>10, <1>11, <1>13, <1>14 DEF PostsInv

\* The row of a view that was counted comes after it.
LEMMA SaveViewKeeps ==
  ASSUME PostsInv, IsFiniteSet(Editor), NEW e \in Editor, SaveView(e)
  PROVE  PostsInv'
<1> PICK w \in PostRequest : w = hand[e]
  BY DEF PostsInv, PostsShape
<1> DEFINE p == w.p
<1>1. /\ PostsShape /\ AllFit /\ ReviewsHold /\ LetThrough /\ ViewsBounded /\ ViewsAddUp
      /\ IndexHolds
      /\ w.op = "view" /\ hand' = [hand EXCEPT ![e] = NoHand]
      /\ viewed' = [viewed EXCEPT ![p] = @ + 1]
      /\ UNCHANGED <<post, section, collected, log, reviews, overlaid, torn>>
  BY DEF PostsInv, SaveView, Leaves
<1>2. p \in Post /\ Written(p)
  BY <1>1, RequestParts DEF AllFit, Fit
<1>3. /\ viewed' \in [Post -> Nat]
      /\ \A q \in Post : viewed[q] \in Nat
                         /\ viewed'[q] = viewed[q] + (IF q = p THEN 1 ELSE 0)
  BY <1>1, <1>2 DEF PostsShape
<1>4. /\ \A d \in Editor \ {e} : hand'[d] = hand[d]
      /\ hand'[e] = NoHand /\ NoHand.op = "none" /\ hand[e].op = "view" /\ hand[e].p = p
  BY <1>1 DEF PostsShape, NoHand
<1> HIDE DEF p
<1>5. ASSUME NEW q \in Post
      PROVE  /\ Counts(q) \in Nat /\ Counts(q)' = Counts(q)
             /\ viewed'[q] + Cardinality(Busy(q, {"look", "view"})') <= MaxViews
  <2>1. ASSUME NEW ops, "none" \notin ops, "view" \in ops
        PROVE  /\ Cardinality(Busy(q, ops)) \in Nat
               /\ Cardinality(Busy(q, ops)') = Cardinality(Busy(q, ops))
                    - (IF p = q THEN 1 ELSE 0)
    <3>1. /\ Cardinality(Busy(q, ops)) \in Nat
          /\ Cardinality(Busy(q, ops)') = Cardinality(Busy(q, ops))
                    + (IF hand'[e].op \in ops /\ hand'[e].p = q THEN 1 ELSE 0)
                    - (IF hand[e].op \in ops /\ hand[e].p = q THEN 1 ELSE 0)
      BY <1>4, BusyChange
    <3> QED
      BY <1>4, <2>1, <3>1
  <2>2. /\ Cardinality(Busy(q, {"view"})) \in Nat
        /\ Cardinality(Busy(q, {"view"})') = Cardinality(Busy(q, {"view"}))
             - (IF p = q THEN 1 ELSE 0)
    <3>1. "view" \in {"view"} /\ "none" \notin {"view"}
      OBVIOUS
    <3> QED
      BY <2>1, <3>1
  <2>3. /\ Cardinality(Busy(q, {"look", "view"})) \in Nat
        /\ Cardinality(Busy(q, {"look", "view"})') = Cardinality(Busy(q, {"look", "view"}))
             - (IF p = q THEN 1 ELSE 0)
    <3> DEFINE U == {"look", "view"}
    <3>1. "view" \in U /\ "none" \notin U
      OBVIOUS
    <3> HIDE DEF U
    <3>2. /\ Cardinality(Busy(q, U)) \in Nat
          /\ Cardinality(Busy(q, U)') = Cardinality(Busy(q, U)) - (IF p = q THEN 1 ELSE 0)
      BY <2>1, <3>1
    <3> QED
      BY <3>2 DEF U
  <2>4. viewed[q] + Cardinality(Busy(q, {"look", "view"})) <= MaxViews
    BY <1>1 DEF ViewsBounded
  <2>5. Counts(q) \in Nat /\ Counts(q)' = Counts(q)
    BY <1>3, <2>2, CountsAre
  <2> QED
    BY <1>3, <2>3, <2>4, <2>5, PostsAssumption
<1>6. Growing
  BY <1>1, <1>5 DEF Growing, Written
<1>7. hand' \in [Editor -> PostRequest] /\ AllFit'
  BY <1>1, <1>6, OverIsFit, HandsKept
<1>8. PostsShape'
  BY <1>1, <1>3, <1>7 DEF PostsShape
<1>9. ViewsBounded' /\ ViewsAddUp'
  BY <1>1, <1>5, QuietViews
<1>10. ReviewsHold' /\ LetThrough' /\ IndexHolds'
  BY <1>1 DEF LetThrough, ReviewsHold, PublicWasReviewed, Public, LogTellsReviews,
              CollectedWasPublic, IndexHolds
<1> QED
  BY <1>7, <1>8, <1>9, <1>10 DEF PostsInv

\* Single statements: a collection taken back, a category shown or not.
LEMMA StatementsKeep ==
  ASSUME PostsInv, IsFiniteSet(Editor),
         \/ \E p \in Post, v \in Visitor : CancelCollect(p, v)
         \/ \E s \in Section, on \in BOOLEAN : ShowSection(s, on)
         \/ UNCHANGED postVars
  PROVE  PostsInv'
<1>1. /\ UNCHANGED <<post, viewed, log, hand, reviews, overlaid, torn>>
      /\ PostsShape /\ AllFit /\ ReviewsHold /\ LetThrough /\ ViewsBounded /\ ViewsAddUp
      /\ IndexHolds
      /\ collected' \subseteq collected
  BY DEF CancelCollect, ShowSection, postVars, PostsInv
<1>2. /\ section' \in [Section -> SectionRow \union {Unopened}]
      /\ \A s \in Section : /\ section'[s].code = section[s].code
                            /\ section[s] # Unopened <=> section'[s] # Unopened
  <2>1. CASE UNCHANGED section
    BY <1>1, <2>1 DEF PostsShape
  <2>2. ASSUME NEW s \in Section, NEW on \in BOOLEAN, ShowSection(s, on)
        PROVE  /\ section' \in [Section -> SectionRow \union {Unopened}]
               /\ \A q \in Section : /\ section'[q].code = section[q].code
                                     /\ section[q] # Unopened <=> section'[q] # Unopened
    <3>1. section' = [section EXCEPT ![s].on = on] /\ section[s] \in SectionRow
      BY <1>1, <2>2, OpenedRow DEF ShowSection
    <3>2. section \in [Section -> SectionRow \union {Unopened}]
      BY <1>1 DEF PostsShape
    <3> QED
      BY <3>1, <3>2 DEF SectionRow, Unopened
  <2> QED
    BY <2>1, <2>2 DEF CancelCollect, ShowSection, postVars
<1>3. \A p \in Post : Counts(p)' = Counts(p) /\ Written(p)' = Written(p)
  BY <1>1 DEF Counts, Written
<1>4. \A p \in Post : Busy(p, {"look", "view"})' = Busy(p, {"look", "view"})
  BY <1>1 DEF Busy
<1>5. ViewsBounded' /\ ViewsAddUp'
  BY <1>1, <1>3, <1>4 DEF ViewsBounded, ViewsAddUp
<1>6. ReviewsHold' /\ LetThrough' /\ IndexHolds' /\ PostsShape'
  BY <1>1, <1>2 DEF LetThrough, ReviewsHold, PublicWasReviewed, Public, LogTellsReviews,
                    CollectedWasPublic, IndexHolds, PostsShape
<1>7. ASSUME NEW e \in Editor PROVE Fit(hand[e])'
  <2>1. Fit(hand[e]) /\ hand[e] \in PostRequest /\ hand'[e] = hand[e]
    BY <1>1 DEF AllFit, PostsShape
  <2>2. /\ hand[e].op \in {"write", "review", "patch", "decide", "look", "view", "collect"} =>
             hand[e].p \in Post
        /\ hand[e].op \in {"section", "alter", "drop"} => hand[e].s \in Section
    BY <2>1, RequestParts
  <2> QED
    BY <1>1, <1>2, <1>3, <2>1, <2>2 DEF Fit
<1> QED
  BY <1>5, <1>6, <1>7 DEF PostsInv, AllFit

\* Nothing is written or in flight at first.
LEMMA PostsStart == IsFiniteSet(Editor) /\ PostsInit => PostsInv
<1> SUFFICES ASSUME IsFiniteSet(Editor), PostsInit PROVE PostsInv
  OBVIOUS
<1>1. PostsShape
  BY DEF PostsInit, PostsShape, PostRequest
<1>2. /\ \A e \in Editor : hand[e] = NoHand
      /\ \A p \in Post : ~Written(p) /\ ~Public(p)
  BY DEF PostsInit, Written, Public, Unwritten
<1>3. AllFit
  BY <1>2 DEF AllFit, Fit, NoHand
<1>4. ASSUME NEW p \in Post, NEW ops, "none" \notin ops
      PROVE  viewed[p] + Cardinality(Busy(p, ops)) = 0
  <2>1. Busy(p, ops) = {}
    BY <1>2, <1>4 DEF Busy, NoHand
  <2>2. viewed[p] = 0
    BY DEF PostsInit
  <2> QED
    BY <2>1, <2>2, FS_EmptySet
<1>5. ViewsBounded
  <2>1. ASSUME NEW p \in Post
        PROVE  Counts(p) = 0 /\ viewed[p] + Cardinality(Busy(p, {"look", "view"})) <= MaxViews
    <3>1. viewed[p] + Cardinality(Busy(p, {"view"})) = 0
      BY <1>4
    <3>2. viewed[p] + Cardinality(Busy(p, {"look", "view"})) = 0
      BY <1>4
    <3> QED
      BY <3>1, <3>2, CountsAre, PostsAssumption
  <2> QED
    BY <2>1 DEF ViewsBounded
<1>6. ViewsAddUp /\ ReviewsHold /\ LetThrough /\ IndexHolds
  BY <1>2 DEF ViewsAddUp, LetThrough, ReviewsHold, PublicWasReviewed, LogTellsReviews,
              CollectedWasPublic, IndexHolds, PostsInit
<1> QED
  BY <1>1, <1>3, <1>5, <1>6 DEF PostsInv

\* Every step keeps the invariant.
LEMMA PostsStepKeeps == IsFiniteSet(Editor) /\ PostsInv /\ [PostsNext]_postVars => PostsInv'
<1> SUFFICES ASSUME IsFiniteSet(Editor), PostsInv, [PostsNext]_postVars PROVE PostsInv'
  OBVIOUS
<1>1. ASSUME NEW e \in Editor,
             \/ \E t \in Text, s \in Section : CreatePost(e, t, s)
             \/ \E p \in Post, t \in Text, s \in Section : ResubmitMine(e, p, t, s)
             \/ \E p \in Post : RemoveMine(e, p) \/ LookAt(e, p)
             \/ \E p \in Post, to \in Verdict : UpdatePostStatus(e, p, to)
             \/ \E p \in Post, v \in Visitor : AddCollect(e, p, v)
             \/ \E c \in SectionCode, on \in BOOLEAN :
                  FoundSection(e, c, on) \/ \E s \in Section : SaveSection(e, s, c, on)
             \/ \E s \in Section : RemoveSection(e, s)
      PROVE  PostsInv'
  BY <1>1, BeginsKeep
<1>2. ASSUME NEW e \in Editor,
             \/ \E p \in Post : InsertPost(e, p)
             \/ SelectPost(e) \/ SelectSection(e)
             \/ SavePost(e) \/ SaveReview(e) \/ CountView(e) \/ SaveView(e)
             \/ WriteAuditLog(e) \/ SaveCollect(e) \/ StoreSection(e) \/ DropSection(e)
             \/ \E s \in Section : InsertSection(e, s)
      PROVE  PostsInv'
  BY <1>2, InsertPostKeeps, SelectsKeep, SavePostKeeps, SaveReviewKeeps, CountViewKeeps, SaveViewKeeps, EndsKeep
<1>3. CASE \/ \E p \in Post, v \in Visitor : CancelCollect(p, v)
           \/ \E s \in Section, on \in BOOLEAN : ShowSection(s, on)
           \/ UNCHANGED postVars
  BY <1>3, StatementsKeep
<1> QED
  BY <1>1, <1>2, <1>3, Zenon DEF PostsNext

\* The invariant is what the properties say, and more.
LEMMA PostsTell ==
  ASSUME PostsInv, IsFiniteSet(Editor)
  PROVE  PostsTypeOK /\ ReviewsHold /\ ViewsAddUp /\ SectionCodeOnce
<1>1. PostsShape /\ AllFit /\ ViewsBounded /\ ViewsAddUp /\ IndexHolds /\ ReviewsHold
  BY DEF PostsInv
<1>2. ASSUME NEW p \in Post
      PROVE  /\ Counts(p) \in Nat /\ Counts(p) <= MaxViews
             /\ viewed[p] \in 0 .. MaxViews
  <2>1. Busy(p, {"view"}) \subseteq Busy(p, {"look", "view"})
    BY DEF Busy
  <2>2. IsFiniteSet(Busy(p, {"look", "view"}))
    BY FS_Subset DEF Busy
  <2>3. IsFiniteSet(Busy(p, {"view"}))
    BY <2>1, <2>2, FS_Subset
  <2>4. Cardinality(Busy(p, {"view"})) <= Cardinality(Busy(p, {"look", "view"}))
    BY <2>1, <2>2, FS_Subset
  <2>5. /\ Cardinality(Busy(p, {"view"})) \in Nat
        /\ Cardinality(Busy(p, {"look", "view"})) \in Nat
    BY <2>2, <2>3, FS_CardinalityType
  <2>6. viewed[p] \in Nat /\ viewed[p] + Cardinality(Busy(p, {"look", "view"})) <= MaxViews
    BY <1>1 DEF PostsShape, ViewsBounded
  <2> QED
    BY <2>4, <2>5, <2>6, CountsAre, PostsAssumption
<1>3. ASSUME NEW row \in LooseRow, NEW p \in Post, row.views <= Counts(p)
      PROVE  row \in PostRow
  <2>1. row.views \in 0 .. MaxViews
    BY <1>2, <1>3, PostsAssumption DEF LooseRow
  <2> QED
    BY <2>1 DEF LooseRow, PostRow
<1>4. \A p \in Post : post[p] \in PostRow \union {Unwritten}
  <2>1. ASSUME NEW p \in Post, Written(p) PROVE post[p] \in PostRow
    BY <1>1, <1>3, <2>1, WrittenRow DEF ViewsAddUp
  <2> QED
    BY <2>1 DEF Written
<1>5. \A s \in Section : section[s] \in SectionRow \union {Unopened}
  BY <1>1 DEF PostsShape
<1>6. viewed \in [Post -> 0 .. MaxViews]
  BY <1>1, <1>2 DEF PostsShape
<1>7. ASSUME NEW e \in Editor
      PROVE  \/ hand[e] = NoHand
             \/ hand[e] \in [op : {"create"}, copy : PostRow]
             \/ hand[e] \in [op : {"write", "review"}, p : Post, from : PostStatus, copy : PostRow]
             \/ hand[e] \in [op : {"patch", "decide"}, p : Post, from : PostStatus,
                             copy : PostRow, seen : PostRow]
             \/ hand[e] \in [op : {"log"}, row : LogRow]
             \/ hand[e] \in [op : {"look"}, p : Post, seen : 0 .. MaxViews]
             \/ hand[e] \in [op : {"view"}, p : Post]
             \/ hand[e] \in [op : {"collect"}, p : Post, v : Visitor]
             \/ hand[e] \in [op : {"found"}, copy : SectionRow]
             \/ hand[e] \in [op : {"section"}, s : Section, copy : SectionRow]
             \/ hand[e] \in [op : {"alter"}, s : Section, copy : SectionRow, seen : SectionRow]
             \/ hand[e] \in [op : {"drop"}, s : Section]
  <2> PICK r \in PostRequest : r = hand[e]
    BY <1>1 DEF PostsShape
  <2>1. Fit(r)
    BY <1>1 DEF AllFit
  <2>2. ASSUME NEW row \in LooseRow, NEW p \in Post, row.views <= Counts(p)
        PROVE  row \in PostRow
    BY <1>3, <2>2
  <2>4. CASE r \in [op : {"create"}, copy : LooseRow]
    <3>1. r.copy \in LooseRow /\ r.copy.views = 0
      BY <2>1, <2>4 DEF Fit
    <3>2. r.copy \in PostRow
      BY <3>1, PostsAssumption DEF LooseRow, PostRow
    <3> QED
      BY <2>4, <3>2
  <2>5. CASE r \in [op : {"write", "review"}, p : Post, from : PostStatus, copy : LooseRow]
    <3>1. r.p \in Post /\ r.copy \in LooseRow /\ r.copy.views <= Counts(r.p)
      BY <2>1, <2>5 DEF Fit
    <3>2. r.copy \in PostRow
      BY <2>2, <3>1
    <3> QED
      BY <2>5, <3>2
  <2>6. CASE r \in [op : {"patch", "decide"}, p : Post, from : PostStatus, copy : LooseRow,
                    seen : LooseRow]
    <3>1. /\ r.p \in Post /\ r.copy \in LooseRow /\ r.copy.views <= Counts(r.p)
          /\ r.seen \in LooseRow /\ r.seen.views <= Counts(r.p)
      BY <2>1, <2>6 DEF Fit
    <3>2. r.copy \in PostRow /\ r.seen \in PostRow
      BY <2>2, <3>1
    <3> QED
      BY <2>6, <3>2
  <2>3. CASE r \in [op : {"look"}, p : Post, seen : Nat]
    <3>1. r.p \in Post /\ r.seen \in Nat /\ r.seen <= Counts(r.p)
      BY <2>1, <2>3 DEF Fit
    <3>2. r.seen \in 0 .. MaxViews
      BY <1>2, <3>1, PostsAssumption
    <3> QED
      BY <2>3, <3>2
  <2> QED
    BY <2>3, <2>4, <2>5, <2>6 DEF PostRequest
<1>8. PostsTypeOK
  BY <1>1, <1>4, <1>5, <1>6, <1>7 DEF PostsTypeOK, PostsShape
<1>9. SectionCodeOnce
  BY <1>1, OpenedRow DEF SectionCodeOnce, IndexHolds
<1> QED
  BY <1>1, <1>8, <1>9

(* What is public was reviewed, views are counted once, live categories have  *)
(* codes of their own, and every copy keeps its shape: however many members,  *)
(* reviewers and visitors save what they have read (miniapp-post.service.ts,  *)
(* miniapp-category.service.ts).                                              *)
THEOREM PostsKept ==
  ASSUME IsFiniteSet(Editor)
  PROVE  PostsSpec => [](PostsTypeOK /\ ReviewsHold /\ ViewsAddUp /\ SectionCodeOnce)
<1>1. PostsInit => PostsInv
  BY PostsStart
<1>2. PostsInv /\ [PostsNext]_postVars => PostsInv'
  BY PostsStepKeeps
<1>3. PostsInv => PostsTypeOK /\ ReviewsHold /\ ViewsAddUp /\ SectionCodeOnce
  BY PostsTell
<1> QED
  BY <1>1, <1>2, <1>3, PTL DEF PostsSpec

-----------------------------------------------------------------------------
(* The portal *)

PortalRequest ==
  {NotServing}
  \union [op : {"settings"}, id : Site]
  \union [op : {"job"}, j : Job, to : JobState]
  \union [op : {"tell"}, q : Inquiry]
  \union [op : {"inquiry"}, q : Inquiry, copy : InquiryRow]

PortalShape ==
  /\ site \subseteq Site /\ job \in [Job -> JobState] /\ told \subseteq Inquiry
  /\ inquiry \in [Inquiry -> InquiryRow \union {Unasked}]
  /\ serving \in [Hand -> PortalRequest]
  /\ crossed \in BOOLEAN /\ raced \subseteq Job /\ Arranged(shown)

\* While requests about the settings keep apart, there is one row at most, and who
\* is about to save has found it, or none.
OneSite ==
  ~crossed =>
    /\ \A i, k \in site : i = k
    /\ \A h \in Hand : serving[h].op = "settings" => \A i \in site : i = serving[h].id

\* Of a deleted job no save is in flight, but of those marked.
GoneIsMarked ==
  \A h \in Hand : serving[h].op = "job" /\ job[serving[h].j] = "gone" => serving[h].j \in raced

\* An inquiry that is told is there, and one about to be.
ToldIsThere ==
  /\ \A q \in told : inquiry[q] # Unasked
  /\ \A h \in Hand : serving[h].op = "tell" => inquiry[serving[h].q] # Unasked

PortalInv == PortalShape /\ OneSite /\ GoneIsMarked /\ ToldIsThere

\* The parts of a request.
LEMMA ServingParts ==
  ASSUME NEW r \in PortalRequest
  PROVE  /\ r.op = "settings" => r.id \in Site
         /\ r.op = "job" => r.j \in Job /\ r.to \in JobState
         /\ r.op = "tell" => r.q \in Inquiry
         /\ r.op = "inquiry" => r.q \in Inquiry /\ r.copy \in InquiryRow
BY DEF PortalRequest, NotServing

\* One request changes.
LEMMA ServingChange ==
  ASSUME PortalShape, NEW h \in Hand, NEW r \in PortalRequest,
         serving' = [serving EXCEPT ![h] = r]
  PROVE  /\ serving' \in [Hand -> PortalRequest] /\ serving'[h] = r
         /\ \A d \in Hand \ {h} : serving'[d] = serving[d]
BY DEF PortalShape

\* The settings: saved over the row that was found, or made anew by an update of
\* the tenant.
LEMMA SettingsKeep ==
  ASSUME PortalInv,
         \/ \E h \in Hand : (\E i \in Site : UpdateConfig(h, i)) \/ SaveConfig(h)
         \/ \E i \in Site : ResetConfig(i)
  PROVE  PortalInv'
<1>1. PortalShape /\ OneSite /\ GoneIsMarked /\ ToldIsThere
  BY DEF PortalInv
<1>2. ASSUME NEW h \in Hand, NEW i \in Site, UpdateConfig(h, i)
      PROVE  PortalInv'
  <2> DEFINE r == [op |-> "settings", id |-> i]
  <2>1. /\ i \in site \/ site = {}
        /\ serving' = [serving EXCEPT ![h] = r]
        /\ UNCHANGED <<site, job, inquiry, told, shown, crossed, raced>>
    BY <1>2 DEF UpdateConfig, Serves
  <2>2. r \in PortalRequest /\ r.op = "settings" /\ r.id = i
    BY DEF PortalRequest
  <2> HIDE DEF r
  <2>3. /\ serving' \in [Hand -> PortalRequest] /\ serving'[h] = r
        /\ \A d \in Hand \ {h} : serving'[d] = serving[d]
    BY <1>1, <2>1, <2>2, ServingChange
  <2>4. PortalShape'
    BY <1>1, <2>1, <2>3 DEF PortalShape, Arranged
  <2>5. OneSite'
    BY <1>1, <2>1, <2>2, <2>3 DEF OneSite
  <2>6. GoneIsMarked' /\ ToldIsThere'
    BY <1>1, <2>1, <2>2, <2>3 DEF GoneIsMarked, ToldIsThere
  <2> QED
    BY <2>4, <2>5, <2>6 DEF PortalInv
<1>3. ASSUME NEW h \in Hand, SaveConfig(h)
      PROVE  PortalInv'
  <2> PICK w \in PortalRequest : w = serving[h]
    BY <1>1 DEF PortalShape
  <2>1. /\ w.op = "settings" /\ site' = site \union {w.id}
        /\ crossed' = (crossed \/ WithSettings(Others(h)))
        /\ serving' = [serving EXCEPT ![h] = NotServing]
        /\ UNCHANGED <<job, inquiry, told, shown, raced>>
    BY <1>3 DEF SaveConfig, Done
  <2>2. w.id \in Site /\ NotServing \in PortalRequest /\ NotServing.op = "none"
    BY <2>1, ServingParts DEF PortalRequest, NotServing
  <2>3. /\ serving' \in [Hand -> PortalRequest] /\ serving'[h] = NotServing
        /\ \A d \in Hand \ {h} : serving'[d] = serving[d]
    BY <1>1, <2>1, <2>2, ServingChange
  <2>4. ~crossed' => ~crossed /\ \A d \in Hand \ {h} : serving[d].op # "settings"
    BY <2>1 DEF WithSettings, Others
  <2>5. crossed' \in BOOLEAN
    BY <1>1, <2>1 DEF PortalShape
  <2>6. PortalShape'
    BY <1>1, <2>1, <2>2, <2>3, <2>5 DEF PortalShape, Arranged
  <2>7. OneSite'
    BY <1>1, <2>1, <2>2, <2>3, <2>4 DEF OneSite
  <2>8. GoneIsMarked' /\ ToldIsThere'
    BY <1>1, <2>1, <2>2, <2>3 DEF GoneIsMarked, ToldIsThere
  <2> QED
    BY <2>6, <2>7, <2>8 DEF PortalInv
<1>4. ASSUME NEW i \in Site, ResetConfig(i)
      PROVE  PortalInv'
  <2>1. /\ site' = {i} /\ crossed' = (crossed \/ WithSettings({serving[h] : h \in Hand}))
        /\ UNCHANGED <<job, inquiry, told, shown, serving, raced>>
    BY <1>4 DEF ResetConfig, NewSite
  <2>2. ~crossed' => \A h \in Hand : serving[h].op # "settings"
    BY <2>1 DEF WithSettings
  <2>3. crossed' \in BOOLEAN
    BY <1>1, <2>1 DEF PortalShape
  <2>4. PortalShape'
    BY <1>1, <2>1, <2>3 DEF PortalShape, Arranged
  <2>5. OneSite'
    BY <2>1, <2>2 DEF OneSite
  <2>6. GoneIsMarked' /\ ToldIsThere'
    BY <1>1, <2>1 DEF GoneIsMarked, ToldIsThere
  <2> QED
    BY <2>4, <2>5, <2>6 DEF PortalInv
<1> QED
  BY <1>2, <1>3, <1>4

\* The jobs.
LEMMA JobsKeep ==
  ASSUME PortalInv,
         \/ \E j \in Job, to \in {"shown", "hidden"} :
              NewJob(j, to) \/ \E h \in Hand : SaveJob(h, j, to)
         \/ \E h \in Hand : (\E j \in Job : DeleteJob(h, j)) \/ WriteJob(h)
  PROVE  /\ PortalInv'
         /\ \A j \in Job : job[j] = "gone" /\ job'[j] # "gone" => j \in raced
<1>1. PortalShape /\ OneSite /\ GoneIsMarked /\ ToldIsThere /\ job \in [Job -> JobState]
  BY DEF PortalInv, PortalShape
<1>2. ASSUME NEW j \in Job, NEW to \in {"shown", "hidden"}, NewJob(j, to)
      PROVE  /\ PortalInv'
             /\ \A k \in Job : job[k] = "gone" /\ job'[k] # "gone" => k \in raced
  <2>1. /\ job[j] = "none" /\ job' = [job EXCEPT ![j] = to]
        /\ UNCHANGED <<site, inquiry, told, shown, serving, crossed, raced>>
    BY <1>2 DEF NewJob
  <2>2. job' \in [Job -> JobState] /\ \A k \in Job : job[k] = "gone" <=> job'[k] = "gone"
    BY <1>1, <2>1 DEF JobState
  <2>3. PortalShape'
    BY <1>1, <2>1, <2>2 DEF PortalShape, Arranged
  <2>4. GoneIsMarked'
    BY <1>1, <2>1, <2>2, ServingParts DEF GoneIsMarked, PortalShape
  <2>5. OneSite' /\ ToldIsThere'
    BY <1>1, <2>1 DEF OneSite, ToldIsThere
  <2> QED
    BY <2>2, <2>3, <2>4, <2>5 DEF PortalInv
<1>3. ASSUME NEW h \in Hand, NEW j \in Job, NEW to \in {"shown", "hidden", "gone"}, There(j),
             Serves(h, [op |-> "job", j |-> j, to |-> to]),
             UNCHANGED <<site, job, inquiry, told, shown, crossed, raced>>
      PROVE  PortalInv'
  <2> DEFINE r == [op |-> "job", j |-> j, to |-> to]
  <2>1. serving' = [serving EXCEPT ![h] = r] /\ job[j] # "gone"
    BY <1>3 DEF Serves, There
  <2>2. r \in PortalRequest /\ r.op = "job" /\ r.j = j
    BY DEF PortalRequest, JobState
  <2> HIDE DEF r
  <2>3. /\ serving' \in [Hand -> PortalRequest] /\ serving'[h] = r
        /\ \A d \in Hand \ {h} : serving'[d] = serving[d]
    BY <1>1, <2>1, <2>2, ServingChange
  <2>4. PortalShape'
    BY <1>1, <1>3, <2>3 DEF PortalShape, Arranged
  <2>5. GoneIsMarked' /\ OneSite' /\ ToldIsThere'
    BY <1>1, <1>3, <2>1, <2>2, <2>3 DEF GoneIsMarked, OneSite, ToldIsThere
  <2> QED
    BY <2>4, <2>5 DEF PortalInv
<1>4. ASSUME NEW h \in Hand, WriteJob(h)
      PROVE  /\ PortalInv'
             /\ \A k \in Job : job[k] = "gone" /\ job'[k] # "gone" => k \in raced
  <2> PICK w \in PortalRequest : w = serving[h]
    BY <1>1 DEF PortalShape
  <2>1. /\ w.op = "job" /\ job' = [job EXCEPT ![w.j] = w.to]
        /\ raced' = IF w.to = "gone" /\ \E r \in Others(h) : r.op = "job" /\ r.j = w.j
                    THEN raced \union {w.j} ELSE raced
        /\ serving' = [serving EXCEPT ![h] = NotServing]
        /\ UNCHANGED <<site, inquiry, told, shown, crossed>>
    BY <1>4 DEF WriteJob, Done
  <2>2. /\ w.j \in Job /\ w.to \in JobState
        /\ NotServing \in PortalRequest /\ NotServing.op = "none"
    BY <2>1, ServingParts DEF PortalRequest, NotServing
  <2>3. /\ serving' \in [Hand -> PortalRequest] /\ serving'[h] = NotServing
        /\ \A d \in Hand \ {h} : serving'[d] = serving[d]
    BY <1>1, <2>1, <2>2, ServingChange
  <2>4. /\ job' \in [Job -> JobState] /\ job'[w.j] = w.to
        /\ \A k \in Job \ {w.j} : job'[k] = job[k]
    BY <1>1, <2>1, <2>2
  <2>5. raced \subseteq raced' /\ raced' \subseteq Job
    BY <1>1, <2>1, <2>2 DEF PortalShape
  <2>6. PortalShape'
    BY <1>1, <2>1, <2>3, <2>4, <2>5 DEF PortalShape, Arranged
  <2>7. ASSUME NEW d \in Hand, serving'[d].op = "job", job'[serving'[d].j] = "gone"
        PROVE  serving'[d].j \in raced'
    <3>1. d # h /\ serving'[d] = serving[d] /\ serving[d] \in Others(h)
      BY <2>2, <2>3, <2>7 DEF Others
    <3>2. serving[d].j \in Job
      BY <1>1, <2>7, <3>1, ServingParts DEF PortalShape
    <3>3. CASE serving[d].j = w.j
      <4>1. w.to = "gone"
        BY <2>4, <2>7, <3>1, <3>3
      <4> QED
        BY <2>1, <2>7, <3>1, <3>3, <4>1
    <3>4. CASE serving[d].j # w.j
      BY <1>1, <2>4, <2>5, <2>7, <3>1, <3>2, <3>4 DEF GoneIsMarked
    <3> QED
      BY <3>3, <3>4
  <2>8. GoneIsMarked' /\ OneSite' /\ ToldIsThere'
    BY <1>1, <2>1, <2>2, <2>3, <2>7 DEF GoneIsMarked, OneSite, ToldIsThere
  <2>9. \A k \in Job : job[k] = "gone" /\ job'[k] # "gone" => k \in raced
    BY <1>1, <2>1, <2>4 DEF GoneIsMarked
  <2> QED
    BY <2>6, <2>8, <2>9 DEF PortalInv
<1>5. ASSUME NEW h \in Hand, NEW j \in Job, NEW to \in {"shown", "hidden"}, SaveJob(h, j, to)
      PROVE  PortalInv' /\ UNCHANGED job
  BY <1>3, <1>5 DEF SaveJob, FoundJob
<1>6. ASSUME NEW h \in Hand, NEW j \in Job, DeleteJob(h, j)
      PROVE  PortalInv' /\ UNCHANGED job
  BY <1>3, <1>6 DEF DeleteJob
<1> QED
  BY <1>2, <1>4, <1>5, <1>6

\* The inquiries.
LEMMA InquiriesKeep ==
  ASSUME PortalInv, NEW h \in Hand,
         \/ TellTenant(h) \/ SaveInquiry(h)
         \/ \E q \in Inquiry : SubmitInquiry(h, q)
         \/ \E q \in Inquiry, to \in {"unread", "read", "replied"} : UpdateInquiryStatus(h, q, to)
         \/ \E q \in Inquiry, x \in Remark : UpdateInquiryRemark(h, q, x)
  PROVE  PortalInv'
<1>1. /\ PortalShape /\ OneSite /\ GoneIsMarked /\ ToldIsThere
      /\ inquiry \in [Inquiry -> InquiryRow \union {Unasked}]
  BY DEF PortalInv, PortalShape
<1>2. ASSUME NEW r \in PortalRequest, serving' = [serving EXCEPT ![h] = r],
             r.op \notin {"settings", "job"},
             r.op = "tell" => inquiry'[r.q] # Unasked,
             UNCHANGED <<site, job, shown, crossed, raced>>,
             told' \subseteq Inquiry, \A q \in told' : inquiry'[q] # Unasked,
             inquiry' \in [Inquiry -> InquiryRow \union {Unasked}],
             \A q \in Inquiry : inquiry[q] # Unasked => inquiry'[q] # Unasked
      PROVE  PortalInv'
  <2>1. /\ serving' \in [Hand -> PortalRequest] /\ serving'[h] = r
        /\ \A d \in Hand \ {h} : serving'[d] = serving[d]
    BY <1>1, <1>2, ServingChange
  <2>2. PortalShape'
    BY <1>1, <1>2, <2>1 DEF PortalShape, Arranged
  <2>3. OneSite' /\ GoneIsMarked'
    BY <1>1, <1>2, <2>1 DEF OneSite, GoneIsMarked
  <2>4. \A d \in Hand : serving[d].op = "tell" => serving[d].q \in Inquiry
    BY <1>1, ServingParts DEF PortalShape
  <2>5. ToldIsThere'
    BY <1>1, <1>2, <2>1, <2>4 DEF ToldIsThere
  <2> QED
    BY <2>2, <2>3, <2>5 DEF PortalInv
<1>3. NotServing \in PortalRequest /\ NotServing.op = "none"
  BY DEF PortalRequest, NotServing
<1>4. \A row \in InquiryRow : row # Unasked
  BY DEF InquiryRow, Unasked
<1>5. told \subseteq Inquiry
  BY <1>1 DEF PortalShape
<1> PICK w \in PortalRequest : w = serving[h]
  BY <1>1 DEF PortalShape
<1>6. CASE TellTenant(h)
  <2>1. /\ w.op = "tell" /\ told' \subseteq told \union {w.q}
        /\ serving' = [serving EXCEPT ![h] = NotServing]
        /\ UNCHANGED <<site, job, inquiry, shown, crossed, raced>>
    BY <1>6 DEF TellTenant, Done
  <2>2. w.q \in Inquiry /\ inquiry[w.q] # Unasked
    BY <1>1, <2>1, ServingParts DEF ToldIsThere
  <2>3. told' \subseteq Inquiry /\ \A q \in told' : inquiry'[q] # Unasked
    BY <1>1, <1>5, <2>1, <2>2 DEF ToldIsThere
  <2> QED
    BY <1>1, <1>2, <1>3, <2>1, <2>3
<1>7. CASE SaveInquiry(h)
  <2>1. /\ w.op = "inquiry" /\ inquiry' = [inquiry EXCEPT ![w.q] = w.copy]
        /\ serving' = [serving EXCEPT ![h] = NotServing]
        /\ UNCHANGED <<site, job, told, shown, crossed, raced>>
    BY <1>7 DEF SaveInquiry, Done
  <2>2. w.q \in Inquiry /\ w.copy \in InquiryRow /\ w.copy # Unasked
    BY <1>4, <2>1, ServingParts
  <2>3. /\ inquiry' \in [Inquiry -> InquiryRow \union {Unasked}]
        /\ \A q \in Inquiry : inquiry[q] # Unasked => inquiry'[q] # Unasked
    BY <1>1, <2>1, <2>2
  <2>4. told' \subseteq Inquiry /\ \A q \in told' : inquiry'[q] # Unasked
    BY <1>1, <1>5, <2>1, <2>3 DEF ToldIsThere
  <2> QED
    BY <1>2, <1>3, <2>1, <2>3, <2>4
<1>8. ASSUME NEW q \in Inquiry, SubmitInquiry(h, q)
      PROVE  PortalInv'
  <2> DEFINE r == [op |-> "tell", q |-> q]
  <2>1. /\ inquiry' = [inquiry EXCEPT ![q] = NewInquiry]
        /\ serving' = [serving EXCEPT ![h] = r]
        /\ UNCHANGED <<site, job, told, shown, crossed, raced>>
    BY <1>8 DEF SubmitInquiry, Serves
  <2>2. r \in PortalRequest /\ r.op = "tell" /\ r.q = q
    BY DEF PortalRequest
  <2>3. NewInquiry \in InquiryRow /\ NewInquiry # Unasked
    BY <1>4, PortalAssumption DEF NewInquiry, InquiryRow
  <2>4. /\ inquiry' \in [Inquiry -> InquiryRow \union {Unasked}]
        /\ inquiry'[q] # Unasked
        /\ \A k \in Inquiry : inquiry[k] # Unasked => inquiry'[k] # Unasked
    BY <1>1, <2>1, <2>3
  <2>5. told' \subseteq Inquiry /\ \A k \in told' : inquiry'[k] # Unasked
    BY <1>1, <1>5, <2>1, <2>4 DEF ToldIsThere
  <2> HIDE DEF r
  <2> QED
    BY <1>2, <2>1, <2>2, <2>4, <2>5
<1>9. ASSUME NEW q \in Inquiry, inquiry[q] # Unasked, NEW copy,
             copy \in InquiryRow, Serves(h, [op |-> "inquiry", q |-> q, copy |-> copy]),
             UNCHANGED <<site, job, inquiry, told, shown, crossed, raced>>
      PROVE  PortalInv'
  <2> DEFINE r == [op |-> "inquiry", q |-> q, copy |-> copy]
  <2>1. serving' = [serving EXCEPT ![h] = r]
    BY <1>9 DEF Serves
  <2>2. r \in PortalRequest /\ r.op = "inquiry"
    BY <1>9 DEF PortalRequest
  <2>3. told' \subseteq Inquiry /\ \A k \in told' : inquiry'[k] # Unasked
    BY <1>1, <1>5, <1>9 DEF ToldIsThere
  <2> HIDE DEF r
  <2> QED
    BY <1>1, <1>2, <1>9, <2>1, <2>2, <2>3
<1>10. ASSUME NEW q \in Inquiry, NEW to \in {"unread", "read", "replied"},
              UpdateInquiryStatus(h, q, to)
       PROVE  PortalInv'
  <2>1. inquiry[q] # Unasked /\ inquiry[q] \in InquiryRow
    BY <1>1, <1>10 DEF UpdateInquiryStatus
  <2>2. [inquiry[q] EXCEPT !.status = to] \in InquiryRow
    BY <2>1 DEF InquiryRow
  <2> QED
    BY <1>9, <1>10, <2>1, <2>2 DEF UpdateInquiryStatus
<1>11. ASSUME NEW q \in Inquiry, NEW x \in Remark, UpdateInquiryRemark(h, q, x)
       PROVE  PortalInv'
  <2>1. inquiry[q] # Unasked /\ inquiry[q] \in InquiryRow
    BY <1>1, <1>11 DEF UpdateInquiryRemark
  <2>2. [inquiry[q] EXCEPT !.remark = x] \in InquiryRow
    BY <2>1 DEF InquiryRow
  <2> QED
    BY <1>9, <1>11, <2>1, <2>2 DEF UpdateInquiryRemark
<1> QED
  BY <1>6, <1>7, <1>8, <1>10, <1>11

\* A tenant's site before anything was asked or saved.
LEMMA PortalStart == PortalInit => PortalInv
<1> SUFFICES ASSUME PortalInit PROVE PortalInv
  OBVIOUS
<1>1. \A h \in Hand : serving[h] = NotServing /\ serving[h].op = "none"
  BY DEF PortalInit, NotServing
<1>2. PortalShape
  BY DEF PortalInit, PortalShape, PortalRequest, JobState, Arranged
<1>3. OneSite /\ GoneIsMarked /\ ToldIsThere
  BY <1>1 DEF PortalInit, OneSite, GoneIsMarked, ToldIsThere
<1> QED
  BY <1>2, <1>3 DEF PortalInv

\* Every step keeps the invariant, and brings back no job that it does not mark.
LEMMA PortalStepKeeps ==
  ASSUME PortalInv, [PortalNext]_portalVars
  PROVE  /\ PortalInv'
         /\ \A j \in Job : job[j] = "gone" /\ job'[j] # "gone" => j \in raced
<1>1. CASE \/ \E h \in Hand : (\E i \in Site : UpdateConfig(h, i)) \/ SaveConfig(h)
           \/ \E i \in Site : ResetConfig(i)
  <2>1. UNCHANGED job
    BY <1>1 DEF UpdateConfig, SaveConfig, ResetConfig
  <2> QED
    BY <1>1, <2>1, SettingsKeep
<1>2. CASE \/ \E j \in Job, to \in {"shown", "hidden"} :
                NewJob(j, to) \/ \E h \in Hand : SaveJob(h, j, to)
           \/ \E h \in Hand : (\E j \in Job : DeleteJob(h, j)) \/ WriteJob(h)
  BY <1>2, JobsKeep
<1>3. ASSUME NEW h \in Hand,
             \/ TellTenant(h) \/ SaveInquiry(h)
             \/ \E q \in Inquiry : SubmitInquiry(h, q)
             \/ \E q \in Inquiry, to \in {"unread", "read", "replied"} :
                  UpdateInquiryStatus(h, q, to)
             \/ \E q \in Inquiry, x \in Remark : UpdateInquiryRemark(h, q, x)
      PROVE  PortalInv' /\ UNCHANGED job
  <2>1. UNCHANGED job
    BY <1>3 DEF TellTenant, SaveInquiry, SubmitInquiry, UpdateInquiryStatus,
                UpdateInquiryRemark
  <2> QED
    BY <1>3, <2>1, InquiriesKeep
<1>4. CASE ShelvesChange
  <2>1. /\ Arranged(shown)'
        /\ UNCHANGED <<site, job, inquiry, told, serving, crossed, raced>>
    BY <1>4 DEF ShelvesChange, Arranged
  <2> QED
    BY <2>1 DEF PortalInv, PortalShape, OneSite, GoneIsMarked, ToldIsThere
<1>5. CASE UNCHANGED portalVars
  BY <1>5 DEF portalVars, PortalInv, PortalShape, Arranged, OneSite, GoneIsMarked, ToldIsThere
<1> QED
  BY <1>1, <1>2, <1>3, <1>4, <1>5 DEF PortalNext

\* What the invariant says of the properties.
LEMMA PortalTells ==
  ASSUME PortalInv
  PROVE  PortalTypeOK /\ OneConfig /\ NoticeTellsOfInquiry /\ ListedOpens
<1>1. PortalShape /\ OneSite /\ ToldIsThere
  BY DEF PortalInv
<1>2. ASSUME NEW h \in Hand
      PROVE  \/ serving[h] = NotServing
             \/ serving[h] \in [op : {"settings"}, id : Site]
             \/ serving[h] \in [op : {"job"}, j : Job, to : JobState]
             \/ serving[h] \in [op : {"tell"}, q : Inquiry]
             \/ serving[h] \in [op : {"inquiry"}, q : Inquiry, copy : InquiryRow]
  BY <1>1 DEF PortalShape, PortalRequest
<1>3. PortalTypeOK
  BY <1>1, <1>2 DEF PortalTypeOK, PortalShape
<1>4. OneConfig
  BY <1>1, AtMostOne DEF OneConfig, OneSite
<1>5. NoticeTellsOfInquiry
  BY <1>1 DEF NoticeTellsOfInquiry, ToldIsThere
<1>6. ListedOpens
  BY DEF ListedOpens, OnPage, Opens
<1> QED
  BY <1>3, <1>4, <1>5, <1>6

(* A tenant has one row of settings unless requests about them overlapped, a  *)
(* notice tells of an inquiry that is there, what is listed opens, and no     *)
(* deleted job comes back but from a save it overtook (portal.service.ts).    *)
THEOREM SiteKept == PortalSpec => []PortalTypeOK /\ SiteHolds
<1>1. PortalInit => PortalInv
  BY PortalStart
<1>2. PortalInv /\ [PortalNext]_portalVars => PortalInv'
  BY PortalStepKeeps
<1>3. PortalInv => PortalTypeOK /\ OneConfig /\ NoticeTellsOfInquiry /\ ListedOpens
  BY PortalTells
<1>4. PortalInv /\ [PortalNext]_portalVars =>
        [\A j \in Job : job[j] = "gone" /\ job'[j] # "gone" => j \in raced]_portalVars
  BY PortalStepKeeps
<1> QED
  BY <1>1, <1>2, <1>3, <1>4, PTL DEF PortalSpec, SiteHolds, DeletedStaysDeleted

-----------------------------------------------------------------------------
(* The codes of locations *)

MoveRequest ==
  {Still} \union [op : {"save"}, l : Spot, copy : SpotRow] \union [op : {"remove"}, l : Spot]

CodesShape ==
  /\ spot \in [Spot -> SpotRow \union {Vacant}]
  /\ move \in [Mover -> MoveRequest]
  /\ batched \subseteq LocationCode /\ contested \in BOOLEAN

\* As long as requests keep apart, no location has, or is about to get, the code of
\* another one, but those batchCreate made.
CodesApart ==
  ~contested =>
    /\ \A m, n \in Mover : move[m] # Still /\ move[n] # Still => m = n
    /\ \A l, k \in Spot :
         l # k /\ Standing(l) /\ Standing(k) /\ spot[l].code = spot[k].code
           => spot[l].code \in batched
    /\ \A m \in Mover, k \in Spot :
         move[m].op = "save" /\ k # move[m].l /\ Standing(k) /\ spot[k].code = move[m].copy.code
           => spot[k].code \in batched

CodesInv == CodesShape /\ CodesApart

\* The parts of a request.
LEMMA MoveParts ==
  ASSUME NEW r \in MoveRequest
  PROVE  /\ r.op = "save" => r.l \in Spot /\ r.copy \in SpotRow
         /\ r.op = "remove" => r.l \in Spot
         /\ r.op \in {"save", "remove"} => r # Still
BY DEF MoveRequest, Still

\* A location that stands has a row.
LEMMA StandingRow ==
  ASSUME CodesShape, NEW l \in Spot, Standing(l)
  PROVE  spot[l] \in SpotRow
BY DEF CodesShape, Standing

\* A request that begins has looked for the code it will save.
LEMMA MovesKeep ==
  ASSUME CodesInv, NEW m \in Mover, NEW r \in MoveRequest, Moves(m, r), r.op \in {"save", "remove"},
         ~contested /\ r.op = "save" =>
           \A k \in Spot : k # r.l /\ Standing(k) /\ spot[k].code = r.copy.code
                             => spot[k].code \in batched
  PROVE  CodesInv'
<1>1. /\ CodesShape /\ CodesApart
      /\ move' = [move EXCEPT ![m] = r] /\ UNCHANGED <<spot, batched>>
      /\ contested' = (contested \/ \E n \in Mover : move[n] # Still)
  BY DEF CodesInv, Moves
<1>2. /\ move' \in [Mover -> MoveRequest] /\ move'[m] = r
      /\ \A n \in Mover \ {m} : move'[n] = move[n]
  BY <1>1 DEF CodesShape
<1>3. contested' \in BOOLEAN
  BY <1>1 DEF CodesShape
<1>4. CodesShape'
  BY <1>1, <1>2, <1>3 DEF CodesShape
<1>5. ~contested' => ~contested /\ \A n \in Mover \ {m} : move'[n] = Still
  BY <1>1, <1>2
<1>6. \A l \in Spot : Standing(l)' = Standing(l)
  BY <1>1 DEF Standing
<1>7. ASSUME ~contested', NEW n \in Mover, NEW k \in Spot, move'[n].op = "save",
             k # move'[n].l, Standing(k)', spot'[k].code = move'[n].copy.code
      PROVE  spot'[k].code \in batched'
  <2>1. n = m
    BY <1>5, <1>7 DEF Still
  <2> QED
    BY <1>1, <1>2, <1>5, <1>6, <1>7, <2>1
<1>8. CodesApart'
  BY <1>1, <1>5, <1>6, <1>7 DEF CodesApart
<1> QED
  BY <1>4, <1>8 DEF CodesInv

\* A request is carried out: its row takes the code, or goes.
LEMMA RestsKeep ==
  ASSUME CodesInv, NEW m \in Mover, SaveLocation(m) \/ DeleteLocation(m)
  PROVE  CodesInv'
<1> PICK w \in MoveRequest : w = move[m]
  BY DEF CodesInv, CodesShape
<1>1. /\ CodesShape /\ CodesApart
      /\ w.op \in {"save", "remove"} /\ move' = [move EXCEPT ![m] = Still]
      /\ UNCHANGED <<batched, contested>>
      /\ \/ w.op = "save" /\ spot' = [spot EXCEPT ![w.l] = w.copy]
         \/ w.op = "remove" /\ spot' = [spot EXCEPT ![w.l] = Vacant]
  BY DEF CodesInv, SaveLocation, DeleteLocation, Rests
<1>2. w.l \in Spot /\ w # Still /\ (w.op = "save" => w.copy \in SpotRow)
  BY <1>1, MoveParts
<1>3. /\ move' \in [Mover -> MoveRequest] /\ move'[m] = Still
      /\ \A n \in Mover \ {m} : move'[n] = move[n]
  BY <1>1 DEF CodesShape, MoveRequest
<1>4. /\ spot' \in [Spot -> SpotRow \union {Vacant}]
      /\ \A l \in Spot \ {w.l} : spot'[l] = spot[l]
      /\ w.op = "save" => spot'[w.l] = w.copy
      /\ w.op = "remove" => spot'[w.l] = Vacant
  BY <1>1, <1>2 DEF CodesShape
<1>5. CodesShape'
  BY <1>1, <1>3, <1>4 DEF CodesShape
<1>6. \A n \in Mover : ~contested => move'[n] = Still
  BY <1>1, <1>2, <1>3 DEF CodesApart
<1>7. ASSUME ~contested, NEW l \in Spot, NEW k \in Spot, l # k, Standing(l)', Standing(k)',
             spot'[l].code = spot'[k].code
      PROVE  spot'[l].code \in batched
  <2>1. CASE l # w.l /\ k # w.l
    BY <1>1, <1>4, <1>7, <2>1 DEF CodesApart, Standing
  <2>2. CASE l = w.l
    <3>1. w.op = "save" /\ spot'[l] = w.copy
      BY <1>1, <1>4, <1>7, <2>2 DEF Standing
    <3>2. spot'[k] = spot[k] /\ Standing(k)
      BY <1>4, <1>7, <2>2 DEF Standing
    <3> QED
      BY <1>1, <1>7, <2>2, <3>1, <3>2 DEF CodesApart
  <2>3. CASE k = w.l
    <3>1. w.op = "save" /\ spot'[k] = w.copy
      BY <1>1, <1>4, <1>7, <2>3 DEF Standing
    <3>2. spot'[l] = spot[l] /\ Standing(l)
      BY <1>4, <1>7, <2>3 DEF Standing
    <3> QED
      BY <1>1, <1>7, <2>3, <3>1, <3>2 DEF CodesApart
  <2> QED
    BY <2>1, <2>2, <2>3
<1>8. CodesApart'
  BY <1>1, <1>6, <1>7 DEF CodesApart, Still
<1> QED
  BY <1>5, <1>8 DEF CodesInv

\* batchCreate does not look for codes, but those it makes are known.
LEMMA BatchKeeps ==
  ASSUME CodesInv, NEW t \in Lessee, NEW levels \in SUBSET Levels,
         NEW shelves \in SUBSET Shelves, BatchCreate(t, shelves, levels)
  PROVE  CodesInv'
<1> DEFINE codes == BatchPlaces(shelves, levels)
<1>1. /\ CodesShape /\ CodesApart
      /\ batched' = batched \union codes /\ UNCHANGED <<move, contested>>
  BY DEF CodesInv, BatchCreate
<1>2. codes \subseteq LocationCode
  BY DEF BatchPlaces, LocationCode, GenerateLocationCode
<1> HIDE DEF codes
<1> DEFINE free == {l \in Spot : ~Standing(l) /\ \A m \in Mover : move[m] # Still => move[m].l # l}
<1>3. PICK rows \in SUBSET free, put \in [Spot -> codes] :
        spot' = [l \in Spot |-> IF l \in rows THEN [of |-> t, code |-> put[l]] ELSE spot[l]]
  BY Zenon DEF BatchCreate, codes
<1>4. \A l \in Spot : put[l] \in codes
  OBVIOUS
<1>5. \A l \in Spot : /\ l \in rows => spot'[l].code = put[l] /\ put[l] \in batched'
                      /\ l \notin rows => spot'[l] = spot[l]
  BY <1>1, <1>3, <1>4
<1>6. spot' \in [Spot -> SpotRow \union {Vacant}]
  <2>1. \A l \in Spot : [of |-> t, code |-> put[l]] \in SpotRow
    BY <1>2, <1>4 DEF SpotRow
  <2> QED
    BY <1>1, <1>3, <2>1 DEF CodesShape
<1>7. CodesShape'
  BY <1>1, <1>2, <1>6 DEF CodesShape
<1>8. ASSUME NEW l \in Spot, l \notin rows
      PROVE  Standing(l)' = Standing(l) /\ spot'[l] = spot[l]
  BY <1>5, <1>8 DEF Standing
<1>9. ASSUME ~contested, NEW l \in Spot, NEW k \in Spot, l # k, Standing(l)', Standing(k)',
             spot'[l].code = spot'[k].code
      PROVE  spot'[l].code \in batched'
  <2>1. CASE l \in rows
    BY <1>5, <2>1
  <2>2. CASE k \in rows
    BY <1>5, <1>9, <2>2
  <2>3. CASE l \notin rows /\ k \notin rows
    BY <1>1, <1>8, <1>9, <2>3 DEF CodesApart
  <2> QED
    BY <2>1, <2>2, <2>3
<1>10. ASSUME ~contested, NEW m \in Mover, NEW k \in Spot, move[m].op = "save", k # move[m].l,
              Standing(k)', spot'[k].code = move[m].copy.code
       PROVE  spot'[k].code \in batched'
  <2>1. CASE k \in rows
    BY <1>5, <2>1
  <2>2. CASE k \notin rows
    BY <1>1, <1>8, <1>10, <2>2 DEF CodesApart
  <2> QED
    BY <2>1, <2>2
<1>11. CodesApart'
  BY <1>1, <1>9, <1>10 DEF CodesApart
<1> QED
  BY <1>7, <1>11 DEF CodesInv

\* There are no locations at first.
LEMMA CodesStart == CodesInit => CodesInv
BY DEF CodesInit, CodesInv, CodesShape, MoveRequest, CodesApart, Standing, Still

\* Every step keeps the invariant.
LEMMA CodesStepKeeps ==
  ASSUME CodesInv, [CodesNext]_codeVars
  PROVE  CodesInv'
<1>1. CodesShape /\ CodesApart
  BY DEF CodesInv
<1>2. ASSUME NEW m \in Mover, NEW l \in Spot, NEW t \in Lessee, NEW c \in LocationCode,
             CreateLocation(m, l, t, c)
      PROVE  CodesInv'
  <2> DEFINE r == [op |-> "save", l |-> l, copy |-> [of |-> t, code |-> c]]
  <2>1. r \in MoveRequest /\ Moves(m, r)
    BY <1>2 DEF CreateLocation, MoveRequest, SpotRow
  <2>2. \A k \in Spot : Standing(k) => spot[k].code # r.copy.code
    BY <1>2 DEF CreateLocation, CodeFree
  <2> QED
    BY <2>1, <2>2, MovesKeep
<1>3. ASSUME NEW m \in Mover, NEW l \in Spot, NEW c \in LocationCode, RecodeLocation(m, l, c)
      PROVE  CodesInv'
  <2> DEFINE r == [op |-> "save", l |-> l, copy |-> [spot[l] EXCEPT !.code = c]]
  <2>1. Standing(l) /\ spot[l] \in SpotRow /\ Moves(m, r)
    BY <1>1, <1>3, StandingRow DEF RecodeLocation
  <2>2. r \in MoveRequest /\ r.copy.code = c /\ r.l = l /\ r.op = "save"
    BY <2>1 DEF MoveRequest, SpotRow
  <2>3. ASSUME ~contested, NEW k \in Spot, k # l, Standing(k), spot[k].code = c
        PROVE  spot[k].code \in batched
    <3>1. c = spot[l].code
      BY <1>3, <2>3 DEF RecodeLocation, CodeFree
    <3> QED
      BY <1>1, <2>1, <2>3, <3>1 DEF CodesApart
  <2> HIDE DEF r
  <2> QED
    BY <2>1, <2>2, <2>3, MovesKeep
<1>4. ASSUME NEW m \in Mover, NEW l \in Spot, RemoveLocation(m, l)
      PROVE  CodesInv'
  <2> DEFINE r == [op |-> "remove", l |-> l]
  <2>1. r \in MoveRequest /\ Moves(m, r) /\ r.op = "remove"
    BY <1>4 DEF RemoveLocation, MoveRequest
  <2> QED
    BY <2>1, MovesKeep
<1>5. ASSUME NEW m \in Mover, SaveLocation(m) \/ DeleteLocation(m)
      PROVE  CodesInv'
  BY <1>5, RestsKeep
<1>6. ASSUME NEW t \in Lessee, NEW levels \in SUBSET Levels, NEW shelves \in SUBSET Shelves,
             BatchCreate(t, shelves, levels)
      PROVE  CodesInv'
  BY <1>6, BatchKeeps
<1>7. CASE UNCHANGED codeVars
  BY <1>7 DEF codeVars, CodesInv, CodesShape, CodesApart, Standing
<1>8. \A s \in Shelves, v \in Levels : GenerateLocationCode(s, v) \in LocationCode
  BY DEF LocationCode
<1> QED
  BY <1>2, <1>3, <1>4, <1>5, <1>6, <1>7, <1>8 DEF CodesNext

\* What the invariant says of the properties.
LEMMA CodesTell ==
  ASSUME CodesInv
  PROVE  CodesTypeOK /\ ScanFindsOne
<1>1. CodesShape /\ CodesApart
  BY DEF CodesInv
<1>2. CodesTypeOK
  BY <1>1 DEF CodesTypeOK, CodesShape, MoveRequest
<1>3. ASSUME NEW t \in Lessee, NEW c \in LocationCode, ~contested, c \notin batched
      PROVE  Cardinality(FindByCode(c, t)) <= 1
  <2>1. \A l, k \in FindByCode(c, t) : l = k
    BY <1>1, <1>3 DEF FindByCode, CodesApart
  <2> QED
    BY <2>1, AtMostOne
<1> QED
  BY <1>2, <1>3 DEF ScanFindsOne

(* A scanned code finds one location of the tenant at most, but for codes     *)
(* that batchCreate made and while requests keep apart (location.service.ts). *)
THEOREM CodesKept == CodesSpec => [](CodesTypeOK /\ ScanFindsOne)
<1>1. CodesInit => CodesInv
  BY CodesStart
<1>2. CodesInv /\ [CodesNext]_codeVars => CodesInv'
  BY CodesStepKeeps
<1>3. CodesInv => CodesTypeOK /\ ScanFindsOne
  BY CodesTell
<1> QED
  BY <1>1, <1>2, <1>3, PTL DEF CodesSpec

(* The three side by side: a code names one location and one category, and    *)
(* every table of the pages keeps its shape.                                  *)
THEOREM CodesNameOneEver ==
  ASSUME IsFiniteSet(Editor)
  PROVE  PagesSpec => []CodesNameOne
<1>1. PostsSpec => [](PostsTypeOK /\ ReviewsHold /\ ViewsAddUp /\ SectionCodeOnce)
  BY PostsKept
<1>2. PortalSpec => []PortalTypeOK
  BY SiteKept, PTL
<1>3. CodesSpec => [](CodesTypeOK /\ ScanFindsOne)
  BY CodesKept
<1>4. (PostsTypeOK /\ SectionCodeOnce) /\ PortalTypeOK /\ (CodesTypeOK /\ ScanFindsOne)
        => CodesNameOne
  BY DEF CodesNameOne, ContentTypeOK
<1> QED
  BY <1>1, <1>2, <1>3, <1>4, PTL DEF PagesSpec
=============================================================================
