------------------------------ MODULE MCChannel ------------------------------
(* The projectors of the proxy's server.ts, and their topics.               *)
EXTENDS Channel

ModelTasks == {"sessions", "revisions", "views", "marker"}
ModelTopics == {"received", "completed", "forked"}
ModelSubscribes ==
  [t \in ModelTasks |->
    CASE t = "sessions" -> {"received"}
      [] t = "revisions" -> {"received", "completed"}
      [] t = "views" -> {"completed", "forked"}
      [] t = "marker" -> {"forked"}]
ModelDependsOn ==
  [t \in ModelTasks |->
    CASE t = "sessions" -> <<>> [] t = "revisions" -> <<"sessions">>
      [] OTHER -> <<"revisions">>]
=============================================================================
