---------------------------- MODULE MCFeedClient ----------------------------
(* FeedClient for TLC: one repository whose analysis of HEAD is not yet    *)
(* known to the service, and an imported one of another ref.               *)
EXTENDS FeedClient

MCUrlOf == [i \in {"head", "tag"} |-> "url"]
MCHead == [u \in {"url"} |-> "head"]

Holding(stage, head, tag) ==
  [stage |-> [i \in {"head", "tag"} |-> IF i = "head" THEN stage
                                      ELSE IF tag = None THEN "absent" ELSE "completed"],
   items |-> [i \in {"head", "tag"} |-> IF i = "head" THEN head ELSE tag]]

MCServers == {Holding("absent", None, None), Holding("queued", None, {2, 3})}
MCContents == {None, {1, 2}, {3}}
=============================================================================
