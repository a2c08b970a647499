---------------------------- MODULE ParamsProofs ----------------------------
(***************************************************************************)
(* What check_params promises the supervisor, for all parameter values.    *)
(***************************************************************************)
EXTENDS Params, TLAPS

\* A correction is again a word, although the limit of dirhold wraps at zero.
LEMMA CorrectedType ==
    ASSUME NEW p \in ParamType, NEW o \in ParamType
    PROVE  /\ Corrected(p, o) \in ParamType
           /\ Remembered(p, o) \in ParamType
<1> USE ParamsAssumption DEF Word
<1>1. \A n \in Names : p[n] \in Word /\ o[n] \in Word /\ Fixed(p, o, n) \in Word
  BY DEF ParamType, Fixed, AtLeastOne
<1>2. Longest(p, o) \in Word
  BY <1>1 DEF Longest, Names
<1>3. \A h \in Word : Limited(p, o, h) \in Word /\ AtLeastOne(h) \in Word
  BY <1>2 DEF Limited, AtLeastOne
<1>4. HoldAfterSpace(p, o) \in Word
  BY <1>1, <1>3 DEF HoldAfterSpace, Names
<1>5. NewHold(p, o) \in Word
  BY <1>3, <1>4 DEF NewHold
<1>6. Corrected(p, o) \in ParamType
  BY <1>1, <1>5 DEF Corrected, ParamType
<1>7. Remembered(p, o) \in ParamType
  BY <1>1, <1>6 DEF Remembered, ParamType
<1> QED
  BY <1>6, <1>7

\* After a check nothing differs from its old copy but the scale.
LEMMA CheckSettles ==
    ASSUME NEW p \in ParamType, NEW o \in ParamType
    PROVE  ~Flag(Corrected(p, o), Remembered(p, o))
<1> DEFINE c == Corrected(p, o)
           r == Remembered(p, o)
<1>1. \A n \in Names \ {"scale"} : c[n] = r[n]
  BY DEF Remembered, Corrected
<1>2. HoldAfterSpace(c, r) = r["hold"]
  BY <1>1 DEF HoldAfterSpace, Names
<1> QED
  BY <1>1, <1>2 DEF Flag

\* A check that finds no change to flag changes at most the scale.
LEMMA NoFlagNoChange ==
    ASSUME NEW p \in ParamType, NEW o \in ParamType, ~Flag(p, o)
    PROVE  \A n \in Names \ {"scale"} : Corrected(p, o)[n] = p[n]
<1>1. \A n \in Names \ {"scale", "hold"} : p[n] = o[n]
  BY DEF Flag
<1>2. HoldAfterSpace(p, o) = p["hold"]
  BY <1>1 DEF HoldAfterSpace, Names
<1>3. NewHold(p, o) = p["hold"]
  BY <1>2 DEF NewHold, Flag
<1> QED
  BY <1>1, <1>3 DEF Corrected, Fixed, Names

\* ... and in that case a parameter equals its old copy.
LEMMA NoFlagIsOld ==
    ASSUME NEW p \in ParamType, NEW o \in ParamType, ~Flag(p, o)
    PROVE  \A n \in Names \ {"scale"} : p[n] = o[n]
<1>1. \A n \in Names \ {"scale", "hold"} : p[n] = o[n]
  BY DEF Flag
<1>2. p["hold"] = o["hold"]
  BY <1>1 DEF Flag, HoldAfterSpace, Names
<1> QED
  BY <1>1, <1>2

\* Before the first check nothing is settled and nothing was sent.
LEMMA Starts == Init => IInv
<1> SUFFICES ASSUME Init PROVE IInv
  OBVIOUS
<1>1. param \in ParamType /\ old \in ParamType
  <2>1. param \in [Names -> Values] /\ old = [n \in Names |-> 0]
    BY DEF Init
  <2>2. 0 \in Word /\ \A v \in Values : v \in Word
    BY ParamsAssumption DEF Word
  <2> QED
    BY <2>1, <2>2 DEF ParamType
<1>2. TypeOK
  BY <1>1, Zenon DEF Init, TypeOK
<1>3. ChecksSettle
  BY DEF Init, ChecksSettle
<1>4. ConfigIsOld
  BY DEF Init, ConfigIsOld
<1> QED
  BY <1>2, <1>3, <1>4 DEF IInv

\* Every step of the user and of the supervisor keeps the invariant.
LEMMA Keeps == IInv /\ [Next]_vars => IInv'
<1> SUFFICES ASSUME IInv, [Next]_vars PROVE IInv'
  OBVIOUS
<1> USE DEF IInv
<1> DEFINE c == Corrected(param, old)
           r == Remembered(param, old)
<1>c. /\ c \in ParamType /\ r \in ParamType
      /\ ~Flag(c, r)
      /\ \A n \in Names \ {"scale"} : r[n] = c[n]
  BY CorrectedType, CheckSettles DEF TypeOK, Remembered, Corrected
<1>1. CASE SetParam
  <2>1. TypeOK'
    BY <1>1, ParamsAssumption DEF SetParam, TypeOK, ParamType, Word
  <2> QED
    BY <1>1, <2>1 DEF SetParam, ChecksSettle, ConfigIsOld
<1>2. CASE Cfg
  <2>1. param' = c /\ old' = r /\ touched' = FALSE /\ state' = "TXRXREADY"
    BY <1>2 DEF Cfg, check_params
  <2>2. config' = Sent(param') /\ Sent(param') = Sent(old')
    BY <1>2, <1>c, <2>1 DEF Cfg, send_cfg, Sent, Names
  <2>3. TypeOK'
    BY <1>c, <2>1, <2>2 DEF TypeOK, Sent, ParamType, Names
  <2>4. ChecksSettle'
    BY <1>c, <2>1 DEF ChecksSettle
  <2> QED
    BY <2>2, <2>3, <2>4 DEF ConfigIsOld
<1>3. CASE GoodReply /\ Flag(param, old)
  <2> DEFINE c2 == Corrected(c, r)
             r2 == Remembered(c, r)
  <2>1. /\ c2 \in ParamType /\ r2 \in ParamType
        /\ ~Flag(c2, r2)
        /\ \A n \in Names \ {"scale"} : r2[n] = c2[n]
    <3> HIDE DEF c, r
    <3> QED
      BY <1>c, CorrectedType, CheckSettles DEF Remembered, Corrected
  <2>2. param' = c2 /\ old' = r2 /\ touched' = FALSE /\ state' = state
    BY <1>3 DEF GoodReply
  <2> HIDE DEF c2, r2
  <2>3. config' = Sent(param') /\ Sent(param') = Sent(old')
    BY <1>3, <2>1, <2>2 DEF GoodReply, send_cfg, Sent, Names
  <2>4. TypeOK'
    BY <2>1, <2>2, <2>3 DEF TypeOK, Sent, ParamType, Names
  <2>5. ChecksSettle'
    BY <2>1, <2>2 DEF ChecksSettle
  <2> QED
    BY <2>3, <2>4, <2>5 DEF ConfigIsOld
<1>4. CASE GoodReply /\ ~Flag(param, old)
  <2>1. param' = c /\ old' = r /\ touched' = FALSE /\ state' = state /\ config' = config
    BY <1>4 DEF GoodReply, check_params
  <2>2. \A n \in Names \ {"scale"} : r[n] = old[n]
    BY <1>4, <1>c, NoFlagNoChange, NoFlagIsOld DEF TypeOK
  <2>3. TypeOK'
    BY <1>c, <2>1 DEF TypeOK
  <2>4. ChecksSettle'
    BY <1>c, <2>1 DEF ChecksSettle
  <2>5. ConfigIsOld'
    BY <2>1, <2>2 DEF ConfigIsOld, Sent, Names
  <2> QED
    BY <2>3, <2>4, <2>5
<1>5. CASE Lost
  BY <1>5 DEF Lost, TypeOK, ChecksSettle, ConfigIsOld
<1>6. CASE UNCHANGED vars
  BY <1>6 DEF vars, TypeOK, ChecksSettle, ConfigIsOld
<1> QED
  BY <1>1, <1>2, <1>3, <1>4, <1>5, <1>6 DEF Next

\* The inductive invariant holds in every reachable state.
THEOREM Inductive == Spec => []IInv
  BY Starts, Keeps, PTL DEF Spec

\* Every parameter stays an unsigned word, and so does what the board was sent:
\* the limit of dirhold wraps at either end of the word (rt8p8c.comp:228-238,
\* 249-328).
THEOREM TypeCorrect == Spec => []TypeOK
<1>1. IInv => TypeOK
  BY DEF IInv
<1> QED
  BY <1>1, Inductive, PTL

\* Whatever the user sets and whenever the connection breaks, a check leaves
\* no change for the next one (rt8p8c.comp:258-304).
THEOREM Settles == Spec => []ChecksSettle
<1>1. IInv => ChecksSettle
  BY DEF IInv
<1> QED
  BY <1>1, Inductive, PTL

\* The board of a ready module runs on the parameters as they were checked
\* (rt8p8c.comp:741-747, 771-779).
THEOREM UpToDate == Spec => []BoardUpToDate
<1>1. IInv => BoardUpToDate
  <2> SUFFICES ASSUME IInv, state = "TXRXREADY", ~touched PROVE config = Sent(param)
    BY DEF BoardUpToDate
  <2>1. \A n \in Names \ {"scale"} : param[n] = old[n]
    BY NoFlagIsOld DEF IInv, TypeOK, ChecksSettle
  <2> QED
    BY <2>1 DEF IInv, ConfigIsOld, Sent, Names
<1> QED
  BY <1>1, Inductive, PTL

=============================================================================
