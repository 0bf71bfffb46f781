---------------------------- MODULE CardExchange ----------------------------
(* What a protocol handler promises: a command either returns the answer the  *)
(* card gave to that very command, which the card has carried out once, or it *)
(* fails, and then the card has carried it out once or not at all. Commands   *)
(* are numbered. ProtocolT1 implements this specification.                    *)
EXTENDS Integers

CONSTANT MaxCommands

VARIABLES
    current,   \* the number of the command in progress, or 0
    issued,    \* how many commands there have been
    executed,  \* the last command the card has carried out
    result     \* the last call returned: "none", "error" or "own" (its own answer)

exchangeVars == <<current, issued, executed, result>>

ExchangeInit == current = 0 /\ issued = 0 /\ executed = 0 /\ result = "none"

Issue ==
    /\ current = 0
    /\ issued < MaxCommands
    /\ issued' = issued + 1 /\ current' = issued' /\ result' = "none"
    /\ UNCHANGED executed

\* The card carries out the current command; not one it has carried out before.
Execute ==
    /\ current # 0
    /\ executed < current
    /\ executed' = current
    /\ UNCHANGED <<current, issued, result>>

Succeed ==
    /\ current # 0
    /\ executed = current
    /\ result' = "own" /\ current' = 0
    /\ UNCHANGED <<issued, executed>>

Fail ==
    /\ current # 0
    /\ result' = "error" /\ current' = 0
    /\ UNCHANGED <<issued, executed>>

\* The application resets the card.
Forget == current = 0 /\ result' = "none" /\ UNCHANGED <<current, issued, executed>>

ExchangeNext == Issue \/ Execute \/ Succeed \/ Fail \/ Forget

ExchangeSpec == ExchangeInit /\ [][ExchangeNext]_exchangeVars
=============================================================================
