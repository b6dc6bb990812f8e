------------------------------ MODULE NewsFeed ------------------------------
(***************************************************************************)
(* What the operator is promised of an upstream's announcements, whatever  *)
(* the syncs, the table and the channels go through: what is found at the  *)
(* first sync is history and never sent; what is found later is owed to    *)
(* the operator or let go, and it is told at most once for as long as the  *)
(* program remembers it; a debt is settled, one way or the other.          *)
(***************************************************************************)
CONSTANT Items

VARIABLES
  begun,  \* has a list of announcements ever been stored?
  known,  \* items the program remembers
  owed,   \* items it is about to send
  told    \* items sent since it last learnt of them

feed == <<begun, known, owed, told>>

Init ==
  /\ begun = FALSE
  /\ known = {}
  /\ owed = {}
  /\ told = {}

(* New items are found; some of them are to be sent, none the first time.   *)
Learn(found, due) ==
  /\ owed = {}
  /\ begun' = TRUE
  /\ known' = known \cup found
  /\ owed' = due
  /\ UNCHANGED told

Tell(i) ==
  /\ owed' = owed \ {i}
  /\ told' = told \cup {i}
  /\ UNCHANGED <<begun, known>>

(* A message nobody accepts, or a crash, and it is never tried again.       *)
Drop(lost) ==
  /\ owed' = owed \ lost
  /\ UNCHANGED <<begun, known, told>>

Forget(gone) ==
  /\ known' = known \ gone
  /\ told' = told \ gone
  /\ UNCHANGED <<begun, owed>>

Next ==
  \/ \E found \in SUBSET (Items \ known) :
       \E due \in SUBSET (IF begun THEN found ELSE {}) : Learn(found, due)
  \/ \E i \in owed : Tell(i)
  \/ \E lost \in SUBSET owed : Drop(lost)
  \/ \E gone \in SUBSET (known \ owed) : Forget(gone)

Settle == \E i \in owed : Tell(i) \/ Drop({i}) \/ Drop(owed)

Safety == Init /\ [][Next]_feed

Spec == Safety /\ WF_feed(Settle)
=============================================================================
