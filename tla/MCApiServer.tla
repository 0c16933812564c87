----------------------------- MODULE MCApiServer ----------------------------
(* Two replicas, two requests.  The bodies: one key with and without       *)
(* white space around it, at once and delayed; a key of white space only;  *)
(* the key of a cron fire; a body that is refused.                         *)
EXTENDS ApiServer

MCTrimSpace == [k |-> "key", spaced |-> "key", blank |-> Null, cron |-> "cron"]

Body(key, delay) == [key |-> key, wellFormed |-> TRUE, delay |-> delay, attempts |-> 0]

MCForms ==
  {Body("k", 0), Body("spaced", 1), Body("blank", 0), Body("cron", 0), Body("k", -1)}
=============================================================================
