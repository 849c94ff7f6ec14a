--------------------------- MODULE MCConversation ---------------------------
(* Instances of Conversation for TLC. *)
EXTENDS Conversation

Habit(traffic, tools, edits) == [traffic |-> traffic, tools |-> tools, edits |-> edits]

MCHabits ==
  {Habit({"inject", "count_tokens"}, {"turn", "bookmark"}, {}),
   Habit({"models"}, {"back"}, {}),
   Habit({}, {"turn", "bookmark"}, {"rewind", "clear"}),
   Habit({}, {"bookmark", "label", "delete"}, {}),
   Habit({}, {"back", "dump", "submit"}, {})}

(* One conversation that only bookmarks; one that is probed and rewound. *)
Bookmarking == {Habit({}, {"bookmark"}, {})}
Probed == {Habit({"count_tokens"}, {"back"}, {"clear"})}

(* Two ways past InjectionsInSight of RetconProofs.  A rewind to an injection whose *)
(* only child is a /v1/models call: one of each, and no tool but the rewind.        *)
Hidden == {Habit({"inject", "models"}, {"turn"}, {})}
Few(kind) == Cardinality({r \in Rows : rev[r].kind = kind}) <= 1
OneOfEach ==
  /\ Few("inject") /\ Few("models") /\ used \subseteq {"rewind"}
  /\ \A r \in Rows : rev[r].class = "dangling_unforkable" => rev[r].kind = "models"

(* And a dump of an injection, submitted at a turn before it: an unfinished turn    *)
(* between two injections, two turns that dump and submit, and the fork.            *)
Submitted == {Habit({"inject"}, {"dump", "submit"}, {})}
Story == <<"turn", "inject", "turn", "inject", "turn", "turn", "turn", "sr", "turn">>
Course == <<"closed_forkable", "closed_forkable", "dangling_unforkable", "closed_forkable",
            "open", "open", "closed_forkable", "closed_forkable", "open">>
OnePlot ==
  \A r \in Rows : rev[r].kind = Story[r] /\ rev[r].class \in {"in_flight", Course[r]}
=============================================================================
