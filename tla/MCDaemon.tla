------------------------------ MODULE MCDaemon ------------------------------
(* Instances of Daemon for TLC. *)
EXTENDS Daemon

Run(v, u, p) == [op |-> "run", ver |-> v, up |-> u, port |-> p]
Other(op) == [op |-> op, ver |-> 1, up |-> "a", port |-> DefaultPort]

(* Any three commands one after the other, and any two, with a stop or a    *)
(* clean as the third, at once.                                             *)
MCPlans ==
  [want : [Commands -> {Run(1, "a", 1), Run(2, "a", 1), Run(2, "b", 1), Run(2, "a", 2),
                        Other("stop"), Other("clean")}],
   overlap : {FALSE}, faults : {{"crash", "stuck", "slow"}, {"late", "shutdown"}}, schema : {0, 1}]
  \cup
  {p \in [want : [Commands -> {Run(1, "a", 1), Run(2, "b", 1), Run(2, "a", 2), Other("stop"), Other("clean")}],
          overlap : {TRUE}, faults : {{}, {"crash"}}, schema : {1}] :
     p.want[3].op # "run"}

Racing == {[want |-> [c \in Commands |-> IF c = 1 THEN Run(1, "a", 1) ELSE Run(1, "b", 1)],
            overlap |-> TRUE, faults |-> {}, schema |-> 1]}
=============================================================================
