-------------------------------- MODULE Pages --------------------------------
(* The pages of the web application side by side: the registrars' sectioning, *)
(* a professor's encoding, the review of a section and a chat.  What each     *)
(* changes is its own; they share the application, not a variable.            *)
EXTENDS Sectioning, GradeEncoding, ReviewPages, Chat

PagesSpec == ClientSpec /\ EncodingSpec /\ ReviewSpec /\ ChatSpec

\* The variables of every page have their types, whichever of the pages is used.
PagesTypeOK == ClientTypeOK /\ EncodingTypeOK /\ ReviewTypeOK /\ ChatTypeOK
=============================================================================
