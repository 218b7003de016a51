---------------------------- MODULE OnceContract ----------------------------
(***************************************************************************)
(* What the signed bot API promises about one Telegram update: however     *)
(* often the bot sends the request made from it, and under whichever       *)
(* credential of its service principal, the request takes effect at most   *)
(* once, and every successful answer is the result of that one effect.     *)
(* BotRequest implements it; BotLogin builds on it.                        *)
(***************************************************************************)
CONSTANTS
    Updates,    \* Telegram updates the bot turns into requests
    Results     \* what an operation can leave behind

VARIABLES
    effect,     \* update -> the results its requests have left behind
    told        \* update -> the results the bot was answered with

Init ==
    /\ effect = [u \in Updates |-> {}]
    /\ told = [u \in Updates |-> {}]

Perform(u, x) ==
    /\ effect[u] = {}
    /\ effect' = [effect EXCEPT ![u] = {x}]
    /\ told' \in {told, [told EXCEPT ![u] = {x}]}

Reply(u) ==
    /\ told' = [told EXCEPT ![u] = effect[u]]
    /\ UNCHANGED effect

Next == \E u \in Updates : Reply(u) \/ \E x \in Results : Perform(u, x)

Spec == Init /\ [][Next]_<<effect, told>>
=============================================================================
