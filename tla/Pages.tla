-------------------------------- MODULE Pages --------------------------------
(***************************************************************************)
(* Posts, the portal and the codes of locations side by side.  They share  *)
(* no state: a step of one may come at any time in the others.             *)
(***************************************************************************)
EXTENDS Posts, Portal, LocationCodes

PagesSpec == PostsSpec /\ PortalSpec /\ CodesSpec

\* Posts, the portal and codes keep their types.
ContentTypeOK == PostsTypeOK /\ PortalTypeOK /\ CodesTypeOK

(* A code names one location and one category of posts.                       *)
CodesNameOne == ContentTypeOK /\ ScanFindsOne /\ SectionCodeOnce
=============================================================================
