--------------------------- MODULE MCReviewAlerts ---------------------------
(* Instances of ReviewAlerts: one review edited once and sent to a chat and *)
(* a signed webhook; two reviews, one of which chat cannot show.            *)
EXTENDS ReviewAlerts, TLC

CONSTANTS r1, r2, chat, hook, discord, https

ChatAndHook == (chat :> discord) @@ (hook :> https)
ChatOnly == chat :> discord
=============================================================================
