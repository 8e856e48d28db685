--------------------------- MODULE CommandService ---------------------------
(***************************************************************************)
(* What the command_executor service promises its clients, without its     *)
(* threads: accepted commands wait in line and leave it in the order they  *)
(* entered; each gets at most one final answer; a refused command is never *)
(* in the line; a restart forgets the line and nothing else.  An answer    *)
(* may be lost on the way out, it is never sent twice or changed.          *)
(***************************************************************************)
EXTENDS Integers, Sequences

CONSTANT Uids   (* the numbers commands may have *)

VARIABLES
    line,     (* uids of the accepted commands that are not answered yet    *)
    answers   (* the answers given: [uid, status]                           *)

serviceVars == <<line, answers>>

Final == {"COMPLETED", "FAILED"}
Known(u) == (\E i \in DOMAIN line : line[i] = u) \/ (\E a \in answers : a.uid = u)

ServiceInit == line = <<>> /\ answers = {}

Accept(u) == ~Known(u) /\ line' = Append(line, u) /\ UNCHANGED answers

Refusal(u) == ~Known(u) /\ answers' = answers \cup {[uid |-> u, status |-> "REJECTED"]}
RefuseOne(u) == Refusal(u) /\ UNCHANGED line

\* The first in line is done; its answer arrives, or is lost.
Finish ==
    /\ line # <<>> /\ line' = Tail(line)
    /\ \/ \E st \in Final : answers' = answers \cup {[uid |-> Head(line), status |-> st]}
       \/ UNCHANGED answers

\* A refusal and a finished command go out at the same moment.
FinishAndRefuse(u) ==
    /\ ~Known(u) /\ line # <<>> /\ line' = Tail(line)
    /\ \E st \in Final, refused, told \in BOOLEAN :
         answers' = answers
             \cup (IF refused THEN {[uid |-> u, status |-> "REJECTED"]} ELSE {})
             \cup (IF told THEN {[uid |-> Head(line), status |-> st]} ELSE {})

Restart == line' = <<>> /\ UNCHANGED answers

ServiceNext ==
    \/ \E u \in Uids : Accept(u) \/ RefuseOne(u) \/ FinishAndRefuse(u)
    \/ Finish
    \/ Restart

ServiceSpec == ServiceInit /\ [][ServiceNext]_serviceVars
=============================================================================
