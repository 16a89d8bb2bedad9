--------------------------- MODULE MCAcquisition ----------------------------
(* Acquisition for TLC: a Source with mirrors on two hosts beside a local  *)
(* copy, or two requests to a host that may hang and an image on another.  *)
EXTENDS Acquisition, TLC

CONSTANTS http, repo, repo2, image, path,   \* tasks
          a1, a2, a3, b1,                   \* URLs
          ha, hb                            \* hosts

TheBatches == {{http, path}, {repo, repo2, image}}
TheHosts == [u \in {a1, a2, a3, b1} |-> IF u = b1 THEN hb ELSE ha]
TheOrigins ==
  [t \in Tasks |->
     CASE t = http -> "Http" [] t = image -> "OciRegistry" [] t = path -> "Path"
       [] OTHER -> "Repository"]
AnyAnswer == [u \in {a1, a2, a3, b1} |-> AnswerKinds]
TheUrls ==
  [t \in Tasks |->
     CASE t = http -> <<a3, b1>> [] t = path -> <<>>
       [] t = repo -> <<a1>> [] t = repo2 -> <<a2>> [] t = image -> <<b1>>]
\* ha is configured with a limit of 0, which means 1.
TheLimits == [h \in {ha, hb} |-> IF h = ha THEN 0 ELSE 1]
=============================================================================
