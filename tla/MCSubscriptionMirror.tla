----------------------- MODULE MCSubscriptionMirror -----------------------
(* Model values and bounds for checking SubscriptionMirror with TLC.       *)
EXTENDS SubscriptionMirror

Dunning  == {"buy", "renew", "fail", "recover", "void", "giveup", "cancel", "paylate"}
Pausing  == {"buy", "pause", "touch", "owner", "cancel"}
Rebuying == {"buy", "incomplete", "expire", "recover", "cancel", "touch"}
Refusing == {"buy", "renew", "pause"}
=============================================================================
