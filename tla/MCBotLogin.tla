----------------------------- MODULE MCBotLogin -----------------------------
EXTENDS BotLogin, TLC

CONSTANTS alice, bob, start, code1, code2, other

\* alice asks for a challenge and sends two codes; bob sends one.
MCOwnerOf == start :> alice @@ code1 :> alice @@ code2 :> alice @@ other :> bob
=============================================================================
