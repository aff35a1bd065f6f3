------------------------------ MODULE ProcessGroup ------------------------------
(***************************************************************************)
(* The process group a line connection owns (adapters/rpc-jsonl/           *)
(* process-group.ts).  A small keeper leads the group, so that the group's *)
(* id cannot be used again while the keeper has not been waited for; it    *)
(* starts the command and reports its exit.  The group ends by one         *)
(* SIGKILL, sent by the owner, or by the keeper when the owner has died.   *)
(*                                                                         *)
(* Modelled is a system whose /proc shows the members of a group: on       *)
(* others the code cannot see who survives and promises less.              *)
(***************************************************************************)
EXTENDS Naturals, FiniteSets

CONSTANTS
  Happenings,   \* bound: what may happen to a connection in some behaviour
  Bounds     \* the bounds a behaviour may have: [calls, said, may]

ASSUME BoundsAssumption == Bounds \subseteq [calls : Nat, said : Nat, may : SUBSET Happenings]

VARIABLES
  bound,     \* the bound of this behaviour: fixed at the start
  owner,     \* this process lives
  keeper,    \* "up", "gone", or "unstarted" when it could not be spawned
  ran,       \* the command could be started
  members,   \* who runs in the group besides the keeper: the command, a child of it
  writers,   \* who of them holds the command's output open
  killed,    \* SIGKILL was sent to all of them
  alive,     \* #alive: the owner has not seen the keeper end
  exit       \* #exit: "none", "exited" or "spawn failed", as the owner knows it

groupVars == <<bound, owner, keeper, ran, members, writers, killed, alive, exit>>

GroupTypeOK ==
  /\ bound \in Bounds
  /\ owner \in BOOLEAN
  /\ keeper \in {"up", "gone", "unstarted"}
  /\ ran \in BOOLEAN
  /\ members \subseteq {"command", "child"} /\ writers \subseteq members
  /\ killed \in BOOLEAN
  /\ alive \in BOOLEAN
  /\ exit \in {"none", "exited", "spawn failed"}

\* The keeper starts the command, or cannot, or cannot be started itself.
GroupInit ==
  /\ bound \in Bounds
  /\ owner = TRUE
  /\ \/ keeper = "up" /\ ran \in {TRUE, "never starts" \notin bound.may}
     \/ keeper = "unstarted" /\ ran = FALSE /\ "never starts" \in bound.may
  /\ members = IF ran THEN {"command"} ELSE {}
  /\ writers = members
  /\ killed = FALSE
  /\ alive = TRUE
  /\ exit = "none"

(* What the operating system does *)

\* A descendant starts with the command's output, or with one of its own.
Forks ==
  /\ "forks" \in bound.may /\ "command" \in members /\ "child" \notin members /\ ~killed
  /\ members' = members \union {"child"}
  /\ writers' \in {writers, IF "command" \in writers THEN writers \union {"child"} ELSE writers}
  /\ UNCHANGED <<bound, owner, keeper, ran, killed, alive, exit>>

\* A member closes or redirects its output, and runs on.
LeavesOutput(p) ==
  /\ p \in writers /\ "leaves output" \in bound.may
  /\ writers' = writers \ {p}
  /\ UNCHANGED <<bound, owner, keeper, ran, members, killed, alive, exit>>

\* A member ends by itself, at a SIGTERM, or because it was killed.
MemberEnds(p) ==
  /\ p \in members /\ (killed \/ "exits" \in bound.may)
  /\ members' = members \ {p} /\ writers' = writers \ {p}
  /\ UNCHANGED <<bound, owner, keeper, ran, killed, alive, exit>>

\* The keeper was killed with its group, or dies alone (bound: not after its owner did).
KeeperEnds ==
  /\ keeper = "up" /\ (killed \/ (owner /\ "keeper dies" \in bound.may))
  /\ keeper' = "gone"
  /\ UNCHANGED <<bound, owner, ran, members, writers, killed, alive, exit>>

\* Mutant of KeeperEndsGroup: the keeper ends itself alone.
KeeperEndsItself ==
  /\ ~owner /\ keeper = "up"
  /\ keeper' = "gone"
  /\ UNCHANGED <<bound, owner, ran, members, writers, killed, alive, exit>>

\* The owner's end of the control socket is closed: the keeper kills its own group, itself included.
KeeperEndsGroup ==
  /\ ~owner /\ keeper = "up"
  /\ keeper' = "gone"
  /\ killed' = TRUE
  /\ UNCHANGED <<bound, owner, ran, members, writers, alive, exit>>

(* What the owner does *)

\* liveMembers() === true
LiveMembers == alive /\ members # {}

\* killGroup(): nothing once the keeper was seen to end.
KillGroup == killed' = (killed \/ alive)

\* The keeper's report that the command exited, or could not be started.
KeeperReports ==
  /\ owner /\ alive /\ keeper = "up" /\ "command" \notin members /\ exit = "none"
  /\ exit' = IF ran THEN "exited" ELSE "spawn failed"
  /\ UNCHANGED <<bound, owner, keeper, ran, members, writers, killed, alive>>

\* Mutant of KeeperGone: whoever a dead keeper leaves behind is left alone.
KeeperLeavesOrphans ==
  /\ owner /\ alive /\ keeper = "gone"
  /\ alive' = FALSE
  /\ exit' = IF exit = "none" THEN "exited" ELSE exit
  /\ UNCHANGED <<bound, owner, keeper, ran, members, writers, killed>>

\* The exit of the keeper is seen; when the owner did not end the group (#ending: then `killed` already holds), whoever
\* is left of it is killed.
KeeperGone ==
  /\ owner /\ alive /\ keeper = "gone"
  /\ alive' = FALSE
  /\ killed' = (killed \/ members # {})
  /\ exit' = IF exit = "none" THEN "exited" ELSE exit
  /\ UNCHANGED <<bound, owner, keeper, ran, members, writers>>

\* The "error" event of a keeper that could not be spawned.
KeeperUnstarted ==
  /\ owner /\ alive /\ keeper = "unstarted"
  /\ alive' = FALSE
  /\ exit' = "spawn failed"
  /\ UNCHANGED <<bound, owner, keeper, ran, members, writers, killed>>
===============================================================================
