--------------------------- MODULE SessionProofs ----------------------------
(***************************************************************************)
(* A token outlives neither its secret nor its lifetime, and dies at most  *)
(* a second early, for any configurations, clocks and lifetimes.           *)
(***************************************************************************)
EXTENDS Session, TLAPS

(* Cutting a time to whole seconds takes less than a second from it.       *)
LEMMA SecondCut ==
    ASSUME NEW t \in Int
    PROVE  /\ WholeSecond(t) \in Int
           /\ WholeSecond(t) <= t
           /\ t < WholeSecond(t) + Second
  <1>1. Second \in Int /\ Second > 0
      BY TimeAssumption
  <1>2. t % Second \in 0..(Second - 1)
      BY <1>1
  <1> QED BY <1>1, <1>2 DEF WholeSecond

LEMMA Started == Init => IInv
  <1> SUFFICES ASSUME Init PROVE IInv
      OBVIOUS
  <1>1. TypeOK /\ ~Carried /\ request.caller = Nobody
      BY DEF Init, TypeOK, Carried
  <1>2. tokens = {}
      BY DEF Init
  <1> QED BY <1>1, <1>2 DEF IInv, CallerIsHolder, LiveTokenAccepted

(* What Register and Login add to the tokens.                              *)
LEMMA Issued ==
    ASSUME TypeOK, config # Unset, NEW u \in UserId, Issue(u), NEW t \in tokens' \ tokens
    PROVE  /\ t \in Token /\ t.user = u
           /\ t.nbf <= t.at
           /\ t.exp <= t.at + t.life /\ t.at + t.life < t.exp + Second
  <1>1. t = GenerateToken(u)
      BY DEF Issue
  <1>2. config \in [secret : Secret, expiry : Lifetime] /\ clock \in Clock
      BY DEF TypeOK
  <1>3. clock \in Int /\ config.expiry \in Int /\ clock + config.expiry \in Int
    <2>1. clock \in Nat
        BY <1>2, TimeAssumption
    <2>2. config.expiry \in Lifetime
        BY <1>2
    <2>3. config.expiry \in Int
        BY <2>2, TimeAssumption
    <2> QED BY <2>1, <2>3
  <1>4. /\ WholeSecond(clock) \in Int /\ WholeSecond(clock) <= clock
        /\ WholeSecond(clock + config.expiry) \in Int
        /\ WholeSecond(clock + config.expiry) <= clock + config.expiry
        /\ clock + config.expiry < WholeSecond(clock + config.expiry) + Second
      BY <1>3, SecondCut
  <1> QED BY <1>1, <1>2, <1>4 DEF GenerateToken, Token

LEMMA IssueKeeps ==
    ASSUME IInv, NEW u \in UserId, Register(u) \/ Login(u)
    PROVE  IInv'
  <1>1. /\ Issue(u) /\ config # Unset /\ u \in users' /\ users \subseteq users' /\ users' \subseteq UserId
        /\ UNCHANGED <<clock, config, request>>
      BY DEF Register, Login, IInv, TypeOK
  <1>2. tokens \subseteq tokens'
      BY <1>1 DEF Issue
  <1>3. \A t \in tokens' \ tokens :
            /\ t \in Token /\ t.user = u
            /\ t.nbf <= t.at
            /\ t.exp <= t.at + t.life /\ t.at + t.life < t.exp + Second
      BY <1>1, Issued DEF IInv
  <1>4. TypeOK'
      BY <1>1, <1>3 DEF IInv, TypeOK
  <1>5. \A t \in tokens' :
           /\ t.user \in users'
           /\ t.nbf <= t.at
           /\ t.exp <= t.at + t.life /\ t.at + t.life < t.exp + Second
      BY <1>1, <1>3 DEF IInv
  <1>6. (Carried => request.header \in tokens)' /\ CallerIsHolder' /\ LiveTokenAccepted'
      BY <1>1, <1>2 DEF IInv, Carried, CallerIsHolder, LiveTokenAccepted
  <1> QED BY <1>4, <1>5, <1>6 DEF IInv

LEMMA AuthorizeKeeps ==
    ASSUME IInv, NEW h \in tokens \union {NoToken}, Authorize(h)
    PROVE  IInv'
  <1> USE DEF IInv
  <1>1. /\ UNCHANGED <<clock, config, users, tokens>>
        /\ request'.header = h /\ request'.clock = clock /\ request'.secret = config.secret
        /\ request'.caller = IF h # NoToken /\ ValidateToken(h) THEN h.user ELSE Nobody
      BY DEF Authorize
  <1>2. TypeOK'
    <2>1. request' \in [header : Token \union {NoToken}, caller : UserId \union {Nobody},
                        clock : Clock, secret : Secret \union {Unset}]
      <3>1. config.secret \in Secret /\ h \in Token \union {NoToken}
          BY DEF Authorize, TypeOK
      <3>2. h # NoToken => h.user \in UserId
          BY DEF TypeOK, Token
      <3> QED BY <3>1, <3>2 DEF Authorize, TypeOK
    <2> QED BY <1>1, <2>1 DEF TypeOK
  <1>3. (Carried => request.header \in tokens)'
      BY <1>1 DEF Carried
  <1>4. CASE h = NoToken
      BY <1>1, <1>2, <1>3, <1>4 DEF Carried, CallerIsHolder, LiveTokenAccepted
  <1>5. CASE h # NoToken
    <2>1. /\ h \in tokens /\ h.user \in users /\ h.user # Nobody
          /\ h.nbf \in Int /\ h.exp \in Int /\ h.at \in Int /\ h.life \in Int
          /\ h.nbf <= h.at /\ h.exp <= h.at + h.life /\ h.at + h.life < h.exp + Second
          /\ clock \in Int /\ Second \in Int
      <3>1. h \in tokens /\ h \in Token
          BY <1>5 DEF TypeOK
      <3>2. h.user \in UserId /\ h.nbf \in Int /\ h.exp \in Int /\ h.at \in Clock /\ h.life \in Lifetime
          BY <3>1 DEF Token
      <3>3. h.at \in Int /\ h.life \in Int /\ clock \in Int /\ Second \in Int
        <4>1. Clock \subseteq Int /\ Lifetime \subseteq Int /\ Second \in Int
            BY TimeAssumption
        <4>2. clock \in Clock
            BY DEF TypeOK
        <4> QED BY <3>2, <4>1, <4>2
      <3>4. h.user # Nobody
          BY <3>2, AbsentAssumption
      <3> QED BY <3>1, <3>2, <3>3, <3>4
    <2>2. CallerIsHolder'
        BY <1>1, <1>5, <2>1 DEF CallerIsHolder, Carried, ValidateToken
    <2>3. LiveTokenAccepted'
        BY <1>1, <1>5, <2>1 DEF LiveTokenAccepted, Carried, ValidateToken
    <2> QED BY <1>1, <1>2, <1>3, <2>2, <2>3
  <1> QED BY <1>4, <1>5

LEMMA NextKeeps == IInv /\ [Next]_vars => IInv'
  <1> SUFFICES ASSUME IInv, [Next]_vars PROVE IInv'
      OBVIOUS
  <1>1. ASSUME NEW env \in Environment, Start(env)
        PROVE  IInv'
    <2>1. config' \in [secret : Secret, expiry : Lifetime]
        BY <1>1, TimeAssumption DEF Start, Loads, Load, Environment
    <2> QED BY <1>1, <2>1 DEF Start, IInv, TypeOK, Carried, CallerIsHolder, LiveTokenAccepted
  <1>2. CASE Exit
      BY <1>2 DEF Exit, IInv, TypeOK, Carried, CallerIsHolder, LiveTokenAccepted
  <1>3. ASSUME NEW t \in Clock, SetClock(t)
        PROVE  IInv'
      BY <1>3 DEF SetClock, IInv, TypeOK, Carried, CallerIsHolder, LiveTokenAccepted
  <1>4. CASE UNCHANGED vars
      BY <1>4 DEF vars, IInv, TypeOK, Carried, CallerIsHolder, LiveTokenAccepted
  <1> QED BY <1>1, <1>2, <1>3, <1>4, IssueKeeps, AuthorizeKeeps DEF Next

(* Every token there is was issued to a registered user for a lifetime     *)
(* that its claims keep to within a second.                                *)
THEOREM Invariance == Spec => []IInv
  BY Started, NextKeeps, PTL DEF Spec

(* Every variable of the session keeps its type.                           *)
THEOREM TypeCorrect == Spec => []TypeOK
  <1>1. IInv => TypeOK
      BY DEF IInv
  <1> QED BY <1>1, Invariance, PTL

(* A protected route runs only for a registered user who holds a token of  *)
(* the current secret that is younger than its lifetime.                   *)
THEOREM HoldersOnly == Spec => []CallerIsHolder
  <1>1. IInv => CallerIsHolder
      BY DEF IInv
  <1> QED BY <1>1, Invariance, PTL

(* A token of the current secret is good for its lifetime but for less     *)
(* than a second at the end of it.                                         *)
THEOREM HoldersServed == Spec => []LiveTokenAccepted
  <1>1. IInv => LiveTokenAccepted
      BY DEF IInv
  <1> QED BY <1>1, Invariance, PTL
=============================================================================
