------------------------------- MODULE Params -------------------------------
(***************************************************************************)
(* The parameters of one channel on their way from the user to the board   *)
(* (hal/rt8p8c.comp:228-238, 249-328, 741-784): check_params corrects what *)
(* changed since the last check, and a change makes the module configure   *)
(* the board again.                                                        *)
(***************************************************************************)
EXTENDS Integers

CONSTANTS
    WordMod,   \* range of a u32 parameter
    Values     \* what a user may set a parameter to

ASSUME ParamsAssumption ==
    /\ WordMod \in Nat /\ WordMod > 1
    /\ Values \subseteq 0..(WordMod - 1)

Names == {"width", "space", "setup", "hold", "scale"}
Word == 0..(WordMod - 1)
ParamType == [Names -> Word]

NotSent == [sent |-> FALSE]

VARIABLES
    param,      \* stepwidth, stepspace, dirsetup, dirhold, scale
    old,        \* their old_ copies
    config,     \* the timings the board has, once it has any
    state,      \* the supervisor is in "CFG", or in "TXRXREADY"
    touched     \* for the properties: the user changed something since the check

vars == <<param, old, config, state, touched>>

\* The user may set parameters before the module runs for the first time.
Init ==
    /\ param \in [Names -> Values]
    /\ old = [n \in Names |-> 0]
    /\ config = NotSent
    /\ state = "CFG"
    /\ touched = TRUE

-----------------------------------------------------------------------------
(* check_params: each macro corrects its parameter, if that changed.       *)

AtLeastOne(v) == IF v = 0 THEN 1 ELSE v

\* A parameter that is its own old copy is left as it is.
Fixed(p, o, n) == IF p[n] # o[n] THEN AtLeastOne(p[n]) ELSE p[n]

\* Mutant: the limit is signed.
Longest_Signed(p, o) == Fixed(p, o, "width") + Fixed(p, o, "space") - 1
\* The step period and the longest dirhold under it: a u32 sum wraps, so that
\* a long period counts as a short one and none allows any dirhold.
StepPeriod(p, o) == (Fixed(p, o, "width") + Fixed(p, o, "space")) % WordMod
Longest(p, o) == (Fixed(p, o, "width") + Fixed(p, o, "space") - 1) % WordMod
Limited(p, o, h) == IF h >= StepPeriod(p, o) THEN Longest(p, o) ELSE h

\* check_stepspace_change limits dirhold, then check_dirhold_change does.
HoldAfterSpace(p, o) ==
    IF p["space"] # o["space"] THEN Limited(p, o, p["hold"]) ELSE p["hold"]
NewHold(p, o) ==
    LET h == HoldAfterSpace(p, o)
    IN  IF h # o["hold"] THEN Limited(p, o, AtLeastOne(h)) ELSE h

Corrected(p, o) ==
    [n \in Names |-> IF n = "hold" THEN NewHold(p, o) ELSE Fixed(p, o, n)]

\* Mutant: dirhold is remembered before it is corrected.
Remembered_RawHold(p, o) ==
    [n \in Names |-> IF n \in {"scale", "hold"} THEN p[n] ELSE Corrected(p, o)[n]]
\* The scale is remembered before it is corrected, the others after.
Remembered(p, o) ==
    [n \in Names |-> IF n = "scale" THEN p[n] ELSE Corrected(p, o)[n]]

\* Mutant: a new dirhold does not count as a change.
Flag_NoHold(p, o) == \E n \in Names \ {"scale", "hold"} : p[n] # o[n]
\* The scale is no business of the board.
Flag(p, o) ==
    \/ \E n \in Names \ {"scale", "hold"} : p[n] # o[n]
    \/ HoldAfterSpace(p, o) # o["hold"]

check_params ==
    /\ param' = Corrected(param, old)
    /\ old' = Remembered(param, old)
    /\ touched' = FALSE

\* send_cfg; the board answers with its new configuration in force.
Sent(p) == [sent |-> TRUE, stpwdth |-> p["width"], dirsetp |-> p["setup"],
            dirhold |-> p["hold"]]
send_cfg(p) == config' = Sent(p)

-----------------------------------------------------------------------------

SetParam ==
    /\ \E n \in Names, v \in Values : param' = [param EXCEPT ![n] = v]
    /\ touched' = TRUE
    /\ UNCHANGED <<old, config, state>>

\* The state CFG, until its answer.
Cfg ==
    /\ state = "CFG"
    /\ check_params
    /\ send_cfg(param')
    /\ state' = "TXRXREADY"

\* A good reply in TXRXREADY.  A change jumps to _cfg, which checks again.
GoodReply ==
    /\ state = "TXRXREADY"
    /\ IF Flag(param, old)
       THEN /\ param' = Corrected(Corrected(param, old), Remembered(param, old))
            /\ old' = Remembered(Corrected(param, old), Remembered(param, old))
            /\ touched' = FALSE
            /\ send_cfg(param')
       ELSE check_params /\ UNCHANGED config
    /\ UNCHANGED state

\* The connection is lost; the board may restart before the next one.
Lost ==
    /\ state = "TXRXREADY" /\ state' = "CFG"
    /\ config' = NotSent
    /\ UNCHANGED <<param, old, touched>>

Next == SetParam \/ Cfg \/ GoodReply \/ Lost

Spec == Init /\ [][Next]_vars

-----------------------------------------------------------------------------

\* Every variable keeps its type.
TypeOK ==
    /\ param \in ParamType
    /\ old \in ParamType
    /\ config \in {NotSent} \cup
            [sent : {TRUE}, stpwdth : Word, dirsetp : Word, dirhold : Word]
    /\ state \in {"CFG", "TXRXREADY"}
    /\ touched \in BOOLEAN

\* A check leaves nothing for the next one to change: a ready module does not
\* configure the board for ever (rt8p8c.comp:258-304, 772-779).
ChecksSettle == ~touched => ~Flag(param, old)

\* A ready module has checked parameters the board does not run on only until
\* the next good reply (rt8p8c.comp:741-747, 771-779).
BoardUpToDate ==
    state = "TXRXREADY" /\ ~touched => config = Sent(param)

\* "dirhold must be less than step period" (rt8p8c.comp:274).
HoldBelowPeriod == ~touched => param["hold"] < param["width"] + param["space"]

\* "scale must not be 0" (rt8p8c.comp:310).
ScaleNotZero == ~touched => param["scale"] # 0

-----------------------------------------------------------------------------
(* The inductive invariant: the board has what the old_ copies say.        *)

ConfigIsOld == state = "TXRXREADY" => config = Sent(old)

IInv == TypeOK /\ ChecksSettle /\ ConfigIsOld

=============================================================================
