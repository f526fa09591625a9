--------------------------- MODULE WriteBackStore ---------------------------
(***************************************************************************)
(* What a buffered volume promises its file system: a store of sectors     *)
(* with a volatile copy in front.  Reads see the last write.  Written      *)
(* sectors reach the medium at any time and in any order; once a flush has *)
(* reported success all of them are there.  A request may fail, which      *)
(* changes nothing.  When the power goes, what is not on the medium goes   *)
(* with it.                                                                *)
(***************************************************************************)
CONSTANTS Sectors, Values

VARIABLES
  content,  \* what readers see
  stable,   \* what is on the medium
  reply     \* the last answer given

vars == <<content, stable, reply>>

Init ==
  /\ content \in [Sectors -> Values]
  /\ stable = content
  /\ reply = <<"none">>

Ask ==
  /\ reply' = <<"none">>
  /\ UNCHANGED <<content, stable>>

Read(S) ==
  /\ reply' = <<"read", [s \in S |-> content[s]]>>
  /\ UNCHANGED <<content, stable>>

Write(S, v) ==
  /\ reply' = <<"written", S, v>>
  /\ content' = [s \in Sectors |-> IF s \in S THEN v ELSE content[s]]
  /\ UNCHANGED stable

WriteBack ==
  /\ reply' \in {reply, <<"failed">>}
  /\ DOMAIN stable' = Sectors
  /\ \A s \in Sectors : stable'[s] \in {stable[s], content[s]}
  /\ UNCHANGED content

Flushed ==
  /\ stable = content
  /\ reply' = <<"flushed">>
  /\ UNCHANGED <<content, stable>>

Fail ==
  /\ reply' = <<"failed">>
  /\ UNCHANGED <<content, stable>>

PowerOff ==
  /\ content' = stable
  /\ reply' = <<"none">>
  /\ UNCHANGED stable

Next ==
  \/ \E S \in SUBSET Sectors : Read(S) \/ \E v \in Values : Write(S, v)
  \/ WriteBack \/ Ask \/ Flushed \/ Fail \/ PowerOff

Spec == Init /\ [][Next]_vars

=============================================================================
