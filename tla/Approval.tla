------------------------------- MODULE Approval -------------------------------
(***************************************************************************)
(* The approval gate (approval.ts) and what both stores do to the line it  *)
(* reads.  A body is its text, which a signature covers, the `# Status:`   *)
(* header, and the text that the token in that header signs.               *)
(***************************************************************************)
CONSTANT Text   \* bodies without their status line

Status == {"Draft", "Approved", "Disabled"}
None == "none"
Damaged == "damaged"  \* what is left of a text whose write was cut or mixed

BodyOf(texts) == [text : texts, status : Status \cup {None}, sig : texts \cup {None}]
Body == BodyOf(Text \cup {Damaged})
NoFile == [text |-> None, status |-> None, sig |-> None]

\* Variant: any token will do.
GateAnyToken(b, keyed) == b.status = "Approved" /\ (keyed => b.sig # None)

\* evaluateApprovalGate
Gate(b, keyed) == b.status = "Approved" /\ (keyed => b.sig # None /\ b.sig = b.text)

\* rewriteStatusHeader and forceDraftStatus: the token goes with the old header.
Header(b, s) == [text |-> b.text, status |-> s, sig |-> None]

\* stampApprovalEd25519
Stamped(b) == [text |-> b.text, status |-> "Approved", sig |-> b.text]
=============================================================================
