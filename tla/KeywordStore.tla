---------------------------- MODULE KeywordStore ----------------------------
(***************************************************************************)
(* What the registry of scapar promises, with no arrays, sorted flags or   *)
(* searches: each section is a set of keywords, a lookup is answered from  *)
(* exactly what has been registered, and sections are handed out only      *)
(* when they are.                                                          *)
(***************************************************************************)
CONSTANTS Sec, Item, Key

VARIABLES
  contents,  \* contents[s]: the keywords registered in section s
  handed,    \* the sections the program has a pointer to
  checking,  \* duplicate checking is on
  outcome    \* whether the process runs, or how it ended and what was asked

vars == <<contents, handed, checking, outcome>>

Under(s, k) == {x \in contents[s] : x.key = k}
Running == outcome.how = "running"
Ends(how, asked) == outcome' = [how |-> how, asked |-> asked]

Init ==
  /\ contents = [s \in Sec |-> {}]
  /\ handed = {}
  /\ checking = FALSE
  /\ outcome = [how |-> "running", asked |-> {}]

(* A keyword x nobody has registered before joins section s.  With         *)
(* checking on, there is none with its key yet.                            *)
Fresh(x) == \A t \in Sec : \A y \in contents[t] :
              y.offset # x.offset /\ (x.type = "VALUE" \/ y.sec # x.sec)
Add(s) ==
  /\ Running
  /\ \E x \in contents'[s] :
       /\ x \in Item /\ Fresh(x)
       /\ checking => Under(s, x.key) = {}
       /\ contents' = [contents EXCEPT ![s] = @ \cup {x}]
  /\ UNCHANGED <<handed, checking, outcome>>

(* Only a spelling that is in the section is refused. *)
Refuse(s, k) ==
  /\ Running /\ checking
  /\ Under(s, k) # {}
  /\ Ends("duplicate", {<<s, k>>})
  /\ UNCHANGED <<contents, handed, checking>>

(* A section is handed out to a caller who names one of its keywords. *)
Hand(s, k) ==
  /\ Running
  /\ \E x \in Under(s, k) : x.type # "VALUE" /\ handed' = handed \cup {x.sec}
  /\ UNCHANGED <<contents, checking, outcome>>

(* A NULL result is dereferenced only when nothing is registered under k. *)
Miss(s, k) ==
  /\ Running
  /\ Under(s, k) = {}
  /\ Ends("nullDeref", {<<s, k>>})
  /\ UNCHANGED <<contents, handed, checking>>

(* A call the registry is not in a state to answer ends the process. *)
GiveUp ==
  /\ Running
  /\ Ends("unsorted", {}) \/ Ends("abort", {})
  /\ UNCHANGED <<contents, handed, checking>>

SetChecking ==
  /\ Running
  /\ checking' \in BOOLEAN
  /\ UNCHANGED <<contents, handed, outcome>>

Next ==
  \/ \E s \in Sec : Add(s)
  \/ \E s \in Sec, k \in Key : Refuse(s, k) \/ Hand(s, k) \/ Miss(s, k)
  \/ GiveUp
  \/ SetChecking

Spec == Init /\ [][Next]_vars
=============================================================================
