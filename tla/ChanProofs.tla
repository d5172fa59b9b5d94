------------------------------ MODULE ChanProofs ------------------------------
(***************************************************************************)
(* Theorems about module Chan, for any number of callers, any capacity and *)
(* any number of values.                                                   *)
(*                                                                         *)
(* None of the properties is inductive.  That a full buffer refuses a      *)
(* value, that a receiver parks only on an empty one and that a sender     *)
(* parks only on a full one hold each other up (NoIdlePair), and they      *)
(* differ from one implementation to the next (Shape).  That the caller    *)
(* resume() finds is the one that waits needs every value to have one      *)
(* sender (OneSender), and a buffered channel to list no sender it has     *)
(* already resumed (NoStaleSender), which is what an unbuffered one does.  *)
(* That results are true needs values that are yet to be sent to be in     *)
(* nobody's hands, and answers to stay true while others operate           *)
(* (Truthful).                                                             *)
(*                                                                         *)
(* That a channel is first-in first-out is shown step by step: Proceeds    *)
(* says that a step keeps the invariant and is one of the contract.  Which *)
(* one follows from who may still be offering a value (InLine): every      *)
(* parked sender but the first, which try_recv() may have left behind.     *)
(***************************************************************************)
EXTENDS Chan, ListFacts

\* What an implementation leaves unused; a suspended call has no result.
Shape ==
  /\ kind \in {"unbuffered", "buffered", "unlimited"}
  /\ kind = "unbuffered" => buf = <<>>
  /\ kind = "unlimited" => parked_send = <<>>
  /\ \A p \in Callers : call[p].phase = "blocked" => call[p].result = "none"

SendOps == {"send", "try_send"}
RecvOps == {"recv", "try_recv"}

\* A value belongs to one send, which took it.
OneSender ==
  /\ \A p \in Callers : call[p].op \in SendOps => call[p].val \in 1 .. sends
  /\ \A p, q \in Callers :
       call[p].op \in SendOps /\ call[q].op \in SendOps /\ call[p].val = call[q].val => p = q

\* Every sender that a buffered channel lists waits, and is listed once.
NoStaleSender ==
  kind = "buffered" =>
    /\ \A v \in ToSet(parked_send) : v \in 1 .. sends /\ Waiting(v)
    /\ IsInjective(parked_send)

\* Values that a sender is rid of.
Accepted == ToSet(received) \cup ToSet(buf)

\* What one caller is told is true, or will be if it still waits.
Answered(p) ==
  /\ call[p].op \in SendOps => (call[p].result = "success" <=> call[p].val \in Accepted)
  /\ Finished(p, RecvOps, "success") => call[p].val \in ToSet(received)
  /\ Finished(p, Ops, "closed") => closed_flag
  /\ Finished(p, RecvOps, "closed") => buf = <<>>

\* The next value is one that nobody has accepted.
Truthful == ~broken => Accepted \subseteq 1 .. sends /\ \A p \in Callers : Answered(p)

\* Parked senders are listed once, and all but the front one wait.
InLine ==
  ~broken =>
    /\ IsInjective(parked_send)
    /\ ToSet(parked_send) \subseteq 1 .. sends
    /\ parked_send # <<>> => \A v \in ToSet(Tail(parked_send)) : Waiting(v)

\* The inductive invariant.
IInv ==
  Typed /\ Shape /\ NoIdlePair /\ OneSender /\ NoStaleSender /\ WaitersListed /\ Truthful /\ InLine

-----------------------------------------------------------------------------
(* Facts about the callers that values stand for.                          *)

\* resume() finds the caller that waits.
LEMMA SenderFound ==
  ASSUME OneSender, NEW v, Waiting(v)
  PROVE  SenderOf(v) \in Callers /\ call[SenderOf(v)] = Blocked("send", v)
<1>1. PICK p \in Callers : call[p] = Blocked("send", v)
  BY DEF Waiting
<1>2. call[p].op = "send" /\ call[p].val = v
  BY <1>1 DEF Blocked
<1>3. SenderOf(v) \in Callers /\ call[SenderOf(v)].op = "send" /\ call[SenderOf(v)].val = v
  BY <1>2 DEF SenderOf
<1>4. SenderOf(v) = p
  BY <1>2, <1>3 DEF OneSender, SendOps
<1> QED
  BY <1>1, <1>4

\* What a caller has been told stays true while nothing is said of its value.
LEMMA StaysAnswered ==
  ASSUME NEW p \in Callers, Answered(p), call'[p] = call[p],
         closed_flag => closed_flag',
         ToSet(received) \subseteq ToSet(received'),
         call[p].op \in SendOps => (call[p].val \in Accepted' <=> call[p].val \in Accepted),
         buf = <<>> /\ closed_flag => buf' = <<>>
  PROVE  Answered(p)'
<1>1. Finished(p, RecvOps, "closed") => Finished(p, Ops, "closed")
  BY DEF Finished, RecvOps, Ops
<1> QED
  BY <1>1 DEF Answered, Finished

-----------------------------------------------------------------------------

\* An empty channel, on which nobody is in a call.
LEMMA Initial == ChanInit => IInv
<1> SUFFICES ASSUME ChanInit PROVE IInv
  OBVIOUS
<1>1. Typed
  <2>1. call \in [Callers -> [op : Ops, phase : Phases, val : 0 .. MaxSends, result : Results]]
    BY MaxSendsAssumption DEF ChanInit, Init, Idle, Ops, Phases, Results
  <2>2. <<>> \in Seq(Values) /\ <<>> \in Seq(Callers) /\ Len(<<>>) = 0
    OBVIOUS
  <2>3. closed_flag \in BOOLEAN /\ broken \in BOOLEAN
    BY DEF ChanInit, Init
  <2>6. sends \in 0 .. MaxSends
    BY MaxSendsAssumption DEF ChanInit, Init
  <2>4. buf \in Seq(Values) /\ Len(buf) <= Capacity
    BY <2>2, CapacityAssumption DEF ChanInit, Init
  <2>5. received \in Seq(Values) /\ parked_send \in Seq(Values) /\ parked_recv \in Seq(Callers)
    BY <2>2 DEF ChanInit, Init
  <2> QED
    BY <2>1, <2>3, <2>4, <2>5, <2>6 DEF Typed, TypeOK
<1>2. Shape /\ NoIdlePair /\ OneSender /\ WaitersListed
  BY DEF ChanInit, Init, Idle, Shape, NoIdlePair, OneSender, SendOps, WaitersListed
<1>3. NoStaleSender
  BY DEF ChanInit, Init, NoStaleSender, ToSet, IsInjective
<1>4. Truthful
  BY DEF ChanInit, Init, Idle, Truthful, Answered, Accepted, Finished, SendOps, RecvOps, ToSet
<1>5. InLine
  BY DEF ChanInit, Init, InLine, ToSet, IsInjective
<1> QED
  BY <1>1, <1>2, <1>3, <1>4, <1>5 DEF IInv

-----------------------------------------------------------------------------
(* What the steps of a channel are to its contract.                        *)

Moves == [Contract!Next]_(Contract!vars)

\* What is in line is typed, and was taken to be sent.
LEMMA LineFacts ==
  ASSUME Typed, Truthful, InLine, ~broken
  PROVE  /\ Offers \in Seq(Values) /\ Line \in Seq(Values)
         /\ ToSet(Line) \subseteq 1 .. sends /\ ToSet(received) \subseteq 1 .. sends
<1>1. /\ buf \in Seq(Values) /\ parked_send \in Seq(Values)
      /\ ToSet(buf) \subseteq 1 .. sends /\ ToSet(received) \subseteq 1 .. sends
      /\ ToSet(parked_send) \subseteq 1 .. sends
  BY DEF Typed, TypeOK, Truthful, Accepted, InLine
<1>2. Offers \in Seq(Values) /\ ToSet(Offers) \subseteq 1 .. sends
  <2>1. parked_send # <<>> =>
          Tail(parked_send) \in Seq(Values) /\ ToSet(Tail(parked_send)) \subseteq ToSet(parked_send)
    BY <1>1, QueueFacts, ElementFacts
  <2> QED
    BY <1>1, <2>1 DEF Offers
<1>3. Line \in Seq(Values) /\ ToSet(Line) = ToSet(buf) \cup ToSet(Offers)
  BY <1>1, <1>2, ConcatFacts DEF Line
<1> QED
  BY <1>1, <1>2, <1>3

\* Who operates, and was not parked as the sender of a value, does not change
\* whether its sender waits.
LEMMA WaitingStays ==
  ASSUME NEW a \in Callers, \A p \in Callers \ {a} : call'[p] = call[p],
         NEW v, call[a] # Blocked("send", v), call'[a] # Blocked("send", v)
  PROVE  Waiting(v)' <=> Waiting(v)
BY DEF Waiting, Blocked

LEMMA IdleStays ==
  ASSUME NEW a \in Callers, \A p \in Callers \ {a} : call'[p] = call[p],
         call[a].phase # "blocked", call'[a].phase # "blocked"
  PROVE  \A v : Waiting(v)' <=> Waiting(v)
BY DEF Waiting, Blocked

\* A list of senders that stays as it is.
LEMMA QueueStays ==
  ASSUME InLine, ~broken, parked_send \in Seq(Values), UNCHANGED parked_send,
         sends \in Nat, sends' = sends \/ sends' = sends + 1,
         \A v \in ToSet(parked_send) : Waiting(v)' <=> Waiting(v)
  PROVE  InLine' /\ Offers' = Offers
<1>1. /\ IsInjective(parked_send)
      /\ ToSet(parked_send) \subseteq 1 .. sends
      /\ parked_send # <<>> => \A v \in ToSet(Tail(parked_send)) : Waiting(v)
  BY DEF InLine
<1>2. parked_send # <<>> =>
        Head(parked_send) \in ToSet(parked_send) /\ ToSet(Tail(parked_send)) \subseteq ToSet(parked_send)
  BY ElementFacts
<1>3. 1 .. sends \subseteq 1 .. sends'
  OBVIOUS
<1>4. InLine'
  BY <1>1, <1>2, <1>3 DEF InLine
<1>5. Offers' = Offers
  BY <1>2 DEF Offers
<1> QED
  BY <1>4, <1>5

\* No senders are parked.
LEMMA NoneInLine ==
  /\ parked_send = <<>> => InLine /\ Offers = <<>>
  /\ parked_send' = <<>> => InLine' /\ Offers' = <<>>
BY DEF InLine, Offers, IsInjective, ToSet

\* Nothing moves.
LEMMA Rests ==
  ASSUME UNCHANGED <<closed_flag, buf, received, broken>>, Offers' = Offers
  PROVE  Moves
BY DEF Moves, Contract!vars, Line

\* The contract is left.
LEMMA Breaks ==
  ASSUME ~broken, broken' = TRUE
  PROVE  Moves
BY DEF Moves, Contract!Next, Contract!Break

\* The value that is sent next gets in line.
LEMMA Arrives ==
  ASSUME Typed, Truthful, InLine, ~broken, ~closed_flag, sends < MaxSends,
         UNCHANGED <<closed_flag, received, broken>>,
         Line' = Append(Line, sends + 1)
  PROVE  Moves
<1>1. /\ Line \in Seq(Values) /\ sends \in Nat /\ sends + 1 \in Values
      /\ ToSet(Line) \subseteq 1 .. sends /\ ToSet(received) \subseteq 1 .. sends
  BY LineFacts, MaxSendsAssumption DEF Typed, TypeOK, Values
<1>2. /\ Len(Line') = Len(Line) + 1
      /\ Contract!IsPrefix(Line, Line')
      /\ Contract!Last(Line') = sends + 1
  BY <1>1, AppendedFacts DEF Contract!IsPrefix, Contract!Last, IsPrefix, Last
<1>3. sends + 1 \notin Contract!ToSet(Line) \cup Contract!ToSet(received)
  BY <1>1 DEF Contract!ToSet, ToSet
<1> QED
  BY <1>2, <1>3 DEF Moves, Contract!Next, Contract!Arrive

\* The first value in line is received.
LEMMA Leaves ==
  ASSUME ~broken, Line # <<>>, UNCHANGED <<closed_flag, broken>>,
         received' = Append(received, Head(Line)), Line' = Tail(Line)
  PROVE  Moves
BY DEF Moves, Contract!Next, Contract!Leave

\* The value that is sent next passes an empty line.
LEMMA Passes ==
  ASSUME Typed, Truthful, ~broken, ~closed_flag, sends < MaxSends,
         UNCHANGED <<closed_flag, broken>>,
         Line = <<>>, Line' = <<>>, received' = Append(received, sends + 1)
  PROVE  Moves
<1>1. /\ received \in Seq(Values) /\ sends \in Nat /\ sends + 1 \in Values
      /\ ToSet(received) \subseteq 1 .. sends
  BY MaxSendsAssumption DEF Typed, TypeOK, Values, Truthful, Accepted
<1>2. /\ Len(received') = Len(received) + 1
      /\ Contract!IsPrefix(received, received')
      /\ Contract!Last(received') = sends + 1
  BY <1>1, AppendedFacts DEF Contract!IsPrefix, Contract!Last, IsPrefix, Last
<1>3. Contract!ToSet(received) = ToSet(received)
  BY DEF Contract!ToSet, ToSet
<1>4. sends + 1 \notin Contract!ToSet(received)
  BY <1>1, <1>3
<1> QED
  BY <1>2, <1>4 DEF Moves, Contract!Next, Contract!Pass

\* The parked senders withdraw, and the channel is closed.
LEMMA Shuts ==
  ASSUME Typed, Truthful, InLine, ~broken, ~closed_flag, closed_flag' = TRUE,
         parked_send' = <<>>, UNCHANGED <<buf, received, broken>>
  PROVE  Moves
<1>1. buf \in Seq(Values) /\ Offers \in Seq(Values)
  BY LineFacts DEF Typed, TypeOK
<1>2. Line' = buf
  <2>1. Offers' = <<>> /\ Line' = buf \o <<>>
    BY DEF Offers, Line
  <2> QED
    BY <1>1, <2>1, RowFacts
<1>3. Contract!IsPrefix(Line', Line)
  BY <1>1, <1>2, PrefixFacts DEF Contract!IsPrefix, Line
<1> QED
  BY <1>3 DEF Moves, Contract!Next, Contract!Shut

\* A step keeps the invariant and is one of the contract.
Proceeds == IInv' /\ Moves

-----------------------------------------------------------------------------
(* The steps that the operations of the implementations are made of.       *)

\* The operation completes at once and moves nothing.
LEMMA AnswerStep ==
  ASSUME IInv, ~broken, UNCHANGED kind, NEW a \in Callers, Ready(a),
         NEW o \in Ops \ {"none"}, NEW v \in 0 .. MaxSends, NEW r \in Results, o = "recv" => v = 0,
         sends' = sends \/ (TakesValue /\ v = NextValue),
         o \in SendOps => TakesValue /\ v = NextValue,
         r # "success", r = "closed" => closed_flag /\ (o \in RecvOps => buf = <<>>),
         Answer(a, o, v, r)
  PROVE  Proceeds
<1> USE CapacityAssumption, MaxSendsAssumption, QueueFacts DEF Ready, TakesValue, NextValue, Done, Blocked, vars, Answer
<1>0. Typed /\ Shape /\ NoIdlePair /\ OneSender /\ NoStaleSender /\ WaitersListed /\ Truthful /\ InLine
  BY DEF IInv
<1>1. Typed'
  BY <1>0 DEF Typed, TypeOK, Shape, NoIdlePair, Ops, Phases, Results, Values
<1>2. Shape'
  BY <1>0 DEF Shape, Typed, TypeOK
<1>3. NoIdlePair'
  BY <1>0 DEF NoIdlePair, Typed, TypeOK, Shape
<1>4. OneSender'
  BY <1>0, SMTT(20) DEF OneSender, SendOps, Typed, TypeOK, Values
<1>5. NoStaleSender'
  BY <1>0 DEF NoStaleSender, Waiting, Typed, TypeOK, Values
<1>6. WaitersListed'
  BY <1>0, ElementFacts DEF WaitersListed, Typed, TypeOK, Shape
<1>7. Truthful'
  <2>1. /\ \A p \in Callers \ {a} : call'[p] = call[p]
        /\ call'[a] = [op |-> o, phase |-> "done", val |-> v, result |-> r]
        /\ Accepted \subseteq 1 .. sends /\ \A p \in Callers : Answered(p)
        /\ Accepted' = Accepted /\ UNCHANGED <<received, buf, closed_flag>>
        /\ sends \in Nat /\ (sends' = sends \/ sends' = sends + 1)
    BY <1>0 DEF Typed, TypeOK, Truthful, Accepted
  <2>2. \A p \in Callers \ {a} : Answered(p)'
    BY <2>1, StaysAnswered
  <2>3. o \in SendOps => v \notin Accepted
    BY <2>1
  <2>4. Answered(a)'
    BY <2>1, <2>3 DEF Answered, Finished, SendOps, RecvOps, Ops
  <2>5. Accepted' \subseteq 1 .. sends'
    BY <2>1
  <2> QED
    BY <2>2, <2>4, <2>5 DEF Truthful
<1>8. InLine' /\ Moves
  <2>1. /\ \A p \in Callers \ {a} : call'[p] = call[p]
        /\ call[a].phase # "blocked" /\ call'[a].phase # "blocked"
        /\ UNCHANGED <<closed_flag, buf, parked_send, received, broken>>
        /\ parked_send \in Seq(Values) /\ sends \in Nat /\ (sends' = sends \/ sends' = sends + 1)
    BY <1>0 DEF Typed, TypeOK
  <2>2. \A w \in ToSet(parked_send) : Waiting(w)' <=> Waiting(w)
    BY <2>1, IdleStays
  <2>3. InLine' /\ Offers' = Offers
    BY <1>0, <2>1, <2>2, QueueStays
  <2> QED
    BY <2>1, <2>3, Rests
<1> QED
  BY <1>1, <1>2, <1>3, <1>4, <1>5, <1>6, <1>7, <1>8 DEF IInv, Proceeds

\* The caller parks as a sender.
LEMMA ParkSenderStep ==
  ASSUME IInv, ~broken, UNCHANGED kind, NEW a \in Callers, Ready(a),
         TakesValue, ~closed_flag, parked_recv = <<>>,
         kind # "unlimited", kind = "buffered" => Len(buf) = Capacity,
         ParkSender(a, NextValue)
  PROVE  Proceeds
<1>0. Typed /\ Shape /\ NoIdlePair /\ OneSender /\ NoStaleSender /\ WaitersListed /\ Truthful /\ InLine
  BY DEF IInv
<1>a. /\ UNCHANGED <<kind, closed_flag, buf, parked_recv, received, broken>>
      /\ sends' = sends + 1 /\ sends \in Nat /\ sends + 1 \in Values /\ sends' \in 0 .. MaxSends
      /\ parked_send \in Seq(Values)
      /\ parked_send' = Append(parked_send, sends + 1)
  BY <1>0, MaxSendsAssumption DEF Typed, TypeOK, Values, ParkSender, TakesValue, NextValue
<1>b. /\ parked_send' \in Seq(Values)
      /\ ToSet(parked_send') = ToSet(parked_send) \cup {sends + 1}
      /\ ToSet(parked_send) \subseteq Values
  BY <1>a, QueueFacts, ElementFacts
<1>c. /\ \A p \in Callers \ {a} : call'[p] = call[p]
      /\ call'[a] = Blocked("send", sends + 1)
  BY <1>0 DEF Typed, TypeOK, ParkSender, NextValue
<1>d. call' \in [Callers -> [op : Ops, phase : Phases, val : 0 .. MaxSends, result : Results]]
  <2> DEFINE R == [op : Ops, phase : Phases, val : 0 .. MaxSends, result : Results]
             x == Blocked("send", sends + 1)
  <2>1. x \in R
    BY <1>a DEF Blocked, Ops, Phases, Results, Values
  <2>2. call \in [Callers -> R] /\ call' = [call EXCEPT ![a] = x]
    BY <1>0 DEF Typed, TypeOK, ParkSender, NextValue
  <2> HIDE DEF R, x
  <2>3. call' \in [Callers -> R]
    BY <2>1, <2>2
  <2> QED
    BY <2>3 DEF R
<1>1. Typed'
  BY <1>0, <1>a, <1>b, <1>d DEF Typed, TypeOK
<1>2. Shape'
  BY <1>0, <1>a, <1>c DEF Shape, Blocked
<1>3. NoIdlePair'
  BY <1>0, <1>a DEF NoIdlePair
<1>4. OneSender'
  BY <1>0, <1>a, <1>c DEF OneSender, SendOps, Blocked
<1>5. NoStaleSender'
  <2> SUFFICES ASSUME kind = "buffered" PROVE NoStaleSender'
    BY <1>a DEF NoStaleSender
  <2>1. \A v \in ToSet(parked_send) : v \in 1 .. sends /\ Waiting(v)
    BY <1>0 DEF NoStaleSender
  <2>2. ASSUME NEW v \in ToSet(parked_send) PROVE Waiting(v)'
    <3>1. PICK p \in Callers : call[p] = Blocked("send", v)
      BY <2>1 DEF Waiting
    <3>2. p # a
      BY <3>1 DEF Ready, Blocked
    <3> QED
      BY <1>c, <3>1, <3>2 DEF Waiting
  <2>3. ASSUME NEW v, v = sends + 1 PROVE Waiting(v)'
    BY <1>c, <2>3 DEF Waiting
  <2>4. sends + 1 \notin ToSet(parked_send)
    BY <1>a, <2>1
  <2>5. IsInjective(parked_send')
    BY <1>0, <1>a, <2>4, DistinctFacts DEF NoStaleSender
  <2>6. \A v \in ToSet(parked_send') : v \in 1 .. sends' /\ Waiting(v)'
    BY <1>a, <1>b, <2>1, <2>2, <2>3
  <2> QED
    BY <2>5, <2>6 DEF NoStaleSender
<1>6. WaitersListed'
  BY <1>0, <1>a, <1>b, <1>c DEF WaitersListed, Blocked
<1>7. Truthful'
  <2>1. /\ Accepted \subseteq 1 .. sends /\ \A p \in Callers : Answered(p)
        /\ Accepted' = Accepted
    BY <1>0, <1>a DEF Truthful, Accepted
  <2>2. \A p \in Callers \ {a} : Answered(p)'
    BY <1>a, <1>c, <2>1, StaysAnswered
  <2>3. sends + 1 \notin Accepted
    BY <1>a, <2>1
  <2>4. Answered(a)'
    BY <1>c, <2>1, <2>3 DEF Answered, Finished, Blocked
  <2>5. Accepted' \subseteq 1 .. sends'
    BY <1>a, <2>1
  <2> QED
    BY <2>2, <2>4, <2>5 DEF Truthful
<1>8. InLine' /\ Moves
  <2> DEFINE e == sends + 1
  <2>0. /\ parked_send \in Seq(Values) /\ buf \in Seq(Values) /\ e \in Values
        /\ parked_send' = Append(parked_send, e)
        /\ e \notin ToSet(parked_send)
        /\ IsInjective(parked_send) /\ ToSet(parked_send) \subseteq 1 .. sends
        /\ parked_send # <<>> => \A v \in ToSet(Tail(parked_send)) : Waiting(v)
    BY <1>0, <1>a DEF Typed, TypeOK, InLine
  <2>1. \A v \in ToSet(parked_send) : Waiting(v)' <=> Waiting(v)
    <3> SUFFICES ASSUME NEW v \in ToSet(parked_send) PROVE Waiting(v)' <=> Waiting(v)
      OBVIOUS
    <3>1. call[a] # Blocked("send", v) /\ call'[a] # Blocked("send", v)
      BY <1>c, <2>0 DEF Ready, Blocked
    <3> QED
      BY <1>c, <3>1, WaitingStays
  <2>2. ASSUME NEW v, v = e PROVE Waiting(v)'
    BY <1>c, <2>2 DEF Waiting
  <2> HIDE DEF e
  <2>3. /\ Head(parked_send') = IF parked_send = <<>> THEN e ELSE Head(parked_send)
        /\ Tail(parked_send') = IF parked_send = <<>> THEN <<>> ELSE Append(Tail(parked_send), e)
    BY <2>0, HeadTailAppend
  <2>4. parked_send # <<>> =>
          /\ Tail(parked_send) \in Seq(Values) /\ Head(parked_send) \in ToSet(parked_send)
          /\ ToSet(Tail(parked_send)) \subseteq ToSet(parked_send)
          /\ ToSet(Append(Tail(parked_send), e)) = ToSet(Tail(parked_send)) \cup {e}
    <3>1. parked_send # <<>> =>
            /\ Tail(parked_send) \in Seq(Values) /\ Head(parked_send) \in ToSet(parked_send)
            /\ ToSet(Tail(parked_send)) \subseteq ToSet(parked_send)
      BY <2>0, QueueFacts, ElementFacts
    <3> QED
      BY <2>0, <3>1, ElementFacts
  <2>5. InLine'
    <3>1. IsInjective(parked_send')
      BY <2>0, DistinctFacts
    <3>2. ToSet(parked_send') \subseteq 1 .. sends'
      BY <1>a, <1>b, <2>0
    <3>3. \A v \in ToSet(Tail(parked_send')) : Waiting(v)'
      BY <2>0, <2>1, <2>2, <2>3, <2>4, SMTT(20) DEF ToSet
    <3> QED
      BY <3>1, <3>2, <3>3 DEF InLine
  <2>6. Offers' = Append(Offers, e)
    <3>1. CASE parked_send = <<>>
      BY <2>0, <2>2, <2>3, <3>1 DEF Offers
    <3>2. CASE parked_send # <<>>
      BY <2>0, <2>1, <2>3, <2>4, <3>2 DEF Offers
    <3> QED
      BY <3>1, <3>2
  <2>7. Line' = Append(Line, e)
    <3>1. Offers \in Seq(Values)
      BY <1>0, LineFacts
    <3> QED
      BY <1>a, <2>0, <2>6, <3>1, RowFacts, SMTT(20) DEF Line
  <2>8. sends < MaxSends
    BY DEF TakesValue
  <2> QED
    BY <1>0, <1>a, <2>5, <2>7, <2>8, Arrives DEF e
<1> QED
  BY <1>1, <1>2, <1>3, <1>4, <1>5, <1>6, <1>7, <1>8 DEF IInv, Proceeds

\* The caller parks as a receiver.
LEMMA ParkReceiverStep ==
  ASSUME IInv, ~broken, UNCHANGED kind, NEW a \in Callers, Ready(a),
         ~closed_flag, buf = <<>>, parked_send = <<>>,
         ParkReceiver(a)
  PROVE  Proceeds
<1> USE CapacityAssumption, MaxSendsAssumption, QueueFacts DEF Ready, TakesValue, NextValue, Done, Blocked, vars, ParkReceiver
<1>0. Typed /\ Shape /\ NoIdlePair /\ OneSender /\ NoStaleSender /\ WaitersListed /\ Truthful /\ InLine
  BY DEF IInv
<1>1. Typed'
  BY <1>0 DEF Typed, TypeOK, Shape, NoIdlePair, Ops, Phases, Results, Values
<1>2. Shape'
  BY <1>0 DEF Shape, Typed, TypeOK
<1>3. NoIdlePair'
  BY <1>0 DEF NoIdlePair, Typed, TypeOK, Shape
<1>4. OneSender'
  BY <1>0 DEF OneSender, SendOps, Typed, TypeOK, Values
<1>5. NoStaleSender'
  BY <1>0 DEF NoStaleSender, Waiting, Typed, TypeOK, Values
<1>6. WaitersListed'
  BY <1>0, ElementFacts DEF WaitersListed, Typed, TypeOK, Shape
<1>7. Truthful'
  <2>1. /\ Accepted \subseteq 1 .. sends /\ \A p \in Callers : Answered(p)
        /\ Accepted' = Accepted /\ UNCHANGED <<received, buf, closed_flag, sends>>
        /\ \A p \in Callers \ {a} : call'[p] = call[p]
        /\ call'[a] = [op |-> "recv", phase |-> "blocked", val |-> 0, result |-> "none"]
    BY <1>0 DEF Typed, TypeOK, Truthful, Accepted
  <2>2. \A p \in Callers \ {a} : Answered(p)'
    BY <2>1, StaysAnswered
  <2>3. Answered(a)'
    BY <2>1 DEF Answered, Finished, SendOps
  <2> QED
    BY <2>1, <2>2, <2>3 DEF Truthful
<1>8. InLine' /\ Moves
  <2>1. /\ parked_send' = <<>> /\ parked_send = <<>>
        /\ UNCHANGED <<closed_flag, buf, received, broken>>
    OBVIOUS
  <2> QED
    BY <2>1, NoneInLine, Rests
<1> QED
  BY <1>1, <1>2, <1>3, <1>4, <1>5, <1>6, <1>7, <1>8 DEF IInv, Proceeds

\* The caller suspends on a closed buffered channel.
LEMMA StrandStep ==
  ASSUME IInv, ~broken, UNCHANGED kind, NEW a \in Callers, Ready(a),
         TakesValue, closed_flag, kind = "buffered",
         B!StrandSender(a, NextValue)
  PROVE  Proceeds
<1> USE CapacityAssumption, MaxSendsAssumption, QueueFacts DEF Ready, TakesValue, NextValue, Done, Blocked, vars, B!StrandSender, B!Blocked
<1>0. Typed /\ Shape /\ NoIdlePair /\ OneSender /\ NoStaleSender /\ WaitersListed /\ Truthful /\ InLine
  BY DEF IInv
<1>1. Typed'
  BY <1>0 DEF Typed, TypeOK, Shape, NoIdlePair, Ops, Phases, Results, Values
<1>2. Shape'
  BY <1>0 DEF Shape, Typed, TypeOK
<1>3. NoIdlePair'
  BY <1>0 DEF NoIdlePair, Typed, TypeOK, Shape
<1>4. OneSender'
  BY <1>0 DEF OneSender, SendOps, Typed, TypeOK, Values
<1>5. NoStaleSender'
  BY <1>0 DEF NoStaleSender, Waiting, Typed, TypeOK, Values
<1>6. WaitersListed'
  BY <1>0, ElementFacts DEF WaitersListed, Typed, TypeOK, Shape
<1>7. Truthful'
  <2>1. /\ Accepted \subseteq 1 .. sends /\ \A p \in Callers : Answered(p)
        /\ Accepted' = Accepted /\ UNCHANGED <<received, buf, closed_flag>>
        /\ sends \in Nat /\ sends' = sends + 1
        /\ \A p \in Callers \ {a} : call'[p] = call[p]
        /\ call'[a] = [op |-> "send", phase |-> "blocked", val |-> sends + 1, result |-> "none"]
    BY <1>0 DEF Typed, TypeOK, Truthful, Accepted
  <2>2. \A p \in Callers \ {a} : Answered(p)'
    BY <2>1, StaysAnswered
  <2>3. sends + 1 \notin Accepted
    BY <2>1
  <2>4. Answered(a)'
    BY <2>1, <2>3 DEF Answered, Finished
  <2>5. Accepted' \subseteq 1 .. sends'
    BY <2>1
  <2> QED
    BY <2>2, <2>4, <2>5 DEF Truthful
<1>8. InLine' /\ Moves
  <2>1. /\ parked_send' = <<>> /\ parked_send = <<>>
        /\ UNCHANGED <<closed_flag, buf, received, broken>>
    BY <1>0 DEF NoIdlePair
  <2> QED
    BY <2>1, NoneInLine, Rests
<1> QED
  BY <1>1, <1>2, <1>3, <1>4, <1>5, <1>6, <1>7, <1>8 DEF IInv, Proceeds

\* A value goes straight to a parked receiver.
LEMMA HandOverStep ==
  ASSUME IInv, ~broken, UNCHANGED kind, NEW a \in Callers, Ready(a),
         TakesValue, parked_recv # <<>>, NEW o \in {"send", "try_send"},
         U!HandOver(a, o, NextValue)
  PROVE  Proceeds
<1>0. Typed /\ Shape /\ NoIdlePair /\ OneSender /\ NoStaleSender /\ WaitersListed /\ Truthful /\ InLine
  BY DEF IInv
<1>a. /\ UNCHANGED <<kind, closed_flag, buf, parked_send, broken>>
      /\ sends' = sends + 1 /\ sends \in Nat /\ sends + 1 \in Values /\ sends' \in 0 .. MaxSends
      /\ parked_recv' = Tail(parked_recv)
      /\ received \in Seq(Values) /\ received' = Append(received, sends + 1)
      /\ parked_send = <<>>
  BY <1>0, MaxSendsAssumption
     DEF Typed, TypeOK, NoIdlePair, Values, U!HandOver, TakesValue, NextValue
<1>b. /\ parked_recv' \in Seq(Callers)
      /\ Head(parked_recv) \in Callers
      /\ ToSet(parked_recv) = ToSet(parked_recv') \cup {Head(parked_recv)}
      /\ received' \in Seq(Values)
  BY <1>0, <1>a, QueueFacts, ElementFacts DEF Typed, TypeOK
<1>c. PICK h \in Callers : h = Head(parked_recv)
  BY <1>b
<1>d. /\ \A p \in Callers \ {a, h} : call'[p] = call[p]
      /\ call'[h] = Done("recv", sends + 1, "success")
      /\ h # a => call'[a] = Done(o, sends + 1, "success")
  BY <1>0, <1>c DEF Typed, TypeOK, U!HandOver, U!Done, Done, NextValue
<1>e. call' \in [Callers -> [op : Ops, phase : Phases, val : 0 .. MaxSends, result : Results]]
  <2> DEFINE R == [op : Ops, phase : Phases, val : 0 .. MaxSends, result : Results]
             x == Done(o, sends + 1, "success")
             y == Done("recv", sends + 1, "success")
  <2>1. x \in R /\ y \in R
    BY <1>0, <1>a, <1>c DEF Done, Ops, Phases, Results, Values
  <2>2. call \in [Callers -> R] /\ call' = [call EXCEPT ![a] = x, ![h] = y]
    BY <1>0, <1>a, <1>c DEF Typed, TypeOK, U!HandOver, U!Done, Done, NextValue
  <2> HIDE DEF R, x, y
  <2>3. call' \in [Callers -> R]
    BY <2>1, <2>2
  <2> QED
    BY <2>3 DEF R
<1>1. Typed'
  BY <1>0, <1>a, <1>b, <1>e DEF Typed, TypeOK
<1>2. Shape'
  BY <1>0, <1>a, <1>d DEF Shape, Done
<1>3. NoIdlePair'
  BY <1>0, <1>a DEF NoIdlePair
<1>4. OneSender'
  <2>1. \A p \in Callers :
          call'[p].op \in SendOps => \/ p = a /\ call'[p].val = sends + 1
                                     \/ call'[p] = call[p] /\ call[p].val \in 1 .. sends
    <3> SUFFICES ASSUME NEW p \in Callers, call'[p].op \in SendOps
                 PROVE  \/ p = a /\ call'[p].val = sends + 1
                        \/ call'[p] = call[p] /\ call[p].val \in 1 .. sends
      OBVIOUS
    <3>1. p # h
      BY <1>d DEF Done, SendOps
    <3>2. CASE p = a
      BY <1>d, <3>1, <3>2 DEF Done
    <3>3. CASE p # a
      BY <1>0, <1>d, <3>1, <3>3 DEF OneSender
    <3> QED
      BY <3>2, <3>3
  <2>2. \A p \in Callers : call'[p].op \in SendOps => call'[p].val \in 1 .. sends'
    BY <1>a, <2>1
  <2>3. ASSUME NEW p \in Callers, NEW q \in Callers,
               call'[p].op \in SendOps, call'[q].op \in SendOps, call'[p].val = call'[q].val
        PROVE  p = q
    <3>1. CASE p = a \/ q = a
      <4>1. /\ p # a => call'[p].val \in 1 .. sends
            /\ q # a => call'[q].val \in 1 .. sends
        BY <2>1, <2>3
      <4>2. (p = a => call'[p].val \notin 1 .. sends) /\ (q = a => call'[q].val \notin 1 .. sends)
        BY <1>a, <1>d, <2>3 DEF Done
      <4> QED
        BY <2>3, <3>1, <4>1, <4>2
    <3>2. CASE p # a /\ q # a
      BY <1>0, <2>1, <2>3, <3>2 DEF OneSender
    <3> QED
      BY <3>1, <3>2
  <2> QED
    BY <2>2, <2>3 DEF OneSender
<1>5. NoStaleSender'
  BY <1>a DEF NoStaleSender, ToSet, IsInjective
<1>6. WaitersListed'
  <2> SUFFICES ASSUME NEW p \in Callers, call'[p].phase = "blocked"
               PROVE  p # a /\ p # h /\ call'[p] = call[p]
    BY <1>0, <1>a, <1>b, <1>c DEF WaitersListed
  <2> QED
    BY <1>d DEF Done
<1>7. Truthful'
  <2>1. Accepted \subseteq 1 .. sends /\ \A p \in Callers : Answered(p)
    BY <1>0 DEF Truthful
  <2>2. ToSet(received') = ToSet(received) \cup {sends + 1}
    BY <1>a, ElementFacts
  <2>3. Accepted' = Accepted \cup {sends + 1}
    BY <1>a, <2>2 DEF Accepted
  <2>4. ASSUME NEW p \in Callers \ {a, h} PROVE Answered(p)'
    <3>1. call[p].op \in SendOps => call[p].val # sends + 1
      BY <1>0, <1>a DEF OneSender
    <3> QED
      BY <1>a, <1>d, <2>1, <2>2, <2>3, <3>1, StaysAnswered
  <2>5. Answered(h)'
    BY <1>d, <2>2 DEF Answered, Finished, Done, SendOps
  <2>6. h # a => Answered(a)'
    BY <1>d, <2>3 DEF Answered, Finished, Done, RecvOps
  <2>7. Accepted' \subseteq 1 .. sends'
    BY <1>a, <2>1, <2>3
  <2> QED
    BY <2>4, <2>5, <2>6, <2>7 DEF Truthful
<1>8. InLine' /\ Moves
  <2>1. /\ buf = <<>> /\ parked_send' = <<>> /\ ~closed_flag /\ sends < MaxSends
    BY <1>0, <1>a DEF NoIdlePair, TakesValue
  <2>2. Line = <<>> /\ Line' = <<>>
    BY <1>a, <2>1, NoneInLine, ConcatEmptySeq DEF Line
  <2> QED
    BY <1>0, <1>a, <2>1, <2>2, NoneInLine, Passes
<1> QED
  BY <1>1, <1>2, <1>3, <1>4, <1>5, <1>6, <1>7, <1>8 DEF IInv, Proceeds

\* A value goes into the buffer.  With a receiver parked, that is try_send(), which breaks.
LEMMA StoreStep ==
  ASSUME IInv, ~broken, UNCHANGED kind, NEW a \in Callers, Ready(a),
         TakesValue, ~closed_flag, kind # "unbuffered",
         kind = "buffered" => Len(buf) # Capacity, NEW o \in {"send", "try_send"},
         call' = [call EXCEPT ![a] = Done(o, NextValue, "success")],
         buf' = Append(buf, NextValue),
         broken' = (parked_recv # <<>>),
         UNCHANGED <<closed_flag, parked_send, parked_recv, received>>
  PROVE  Proceeds
<1> USE CapacityAssumption, MaxSendsAssumption, QueueFacts DEF Ready, TakesValue, NextValue, Done, Blocked, vars
<1>0. Typed /\ Shape /\ NoIdlePair /\ OneSender /\ NoStaleSender /\ WaitersListed /\ Truthful /\ InLine
  BY DEF IInv
<1>1. Typed'
  BY <1>0, SMTT(20) DEF Typed, TypeOK, Shape, NoIdlePair, Ops, Phases, Results, Values
<1>2. Shape'
  BY <1>0 DEF Shape, Typed, TypeOK
<1>3. NoIdlePair'
  BY <1>0 DEF NoIdlePair, Typed, TypeOK, Shape
<1>4. OneSender'
  BY <1>0 DEF OneSender, SendOps, Typed, TypeOK, Values
<1>5. NoStaleSender'
  BY <1>0 DEF NoStaleSender, Waiting, Typed, TypeOK, Values
<1>6. WaitersListed'
  BY <1>0, ElementFacts DEF WaitersListed, Typed, TypeOK, Shape
<1>7. Truthful'
  <2>1. /\ Accepted \subseteq 1 .. sends /\ \A p \in Callers : Answered(p)
        /\ buf \in Seq(Values) /\ sends \in Nat /\ sends + 1 \in Values
        /\ sends' = sends + 1 /\ buf' = Append(buf, sends + 1)
        /\ UNCHANGED <<received, closed_flag>>
        /\ \A p \in Callers \ {a} : call'[p] = call[p]
        /\ call'[a] = [op |-> o, phase |-> "done", val |-> sends + 1, result |-> "success"]
    BY <1>0 DEF Typed, TypeOK, Truthful, Values
  <2>2. Accepted' = Accepted \cup {sends + 1}
    BY <2>1, ElementFacts DEF Accepted
  <2>3. ASSUME NEW p \in Callers \ {a} PROVE Answered(p)'
    <3>1. call[p].op \in SendOps => call[p].val # sends + 1
      BY <1>0, <2>1 DEF OneSender
    <3> QED
      BY <2>1, <2>2, <3>1, StaysAnswered
  <2>4. Answered(a)'
    BY <2>1, <2>2 DEF Answered, Finished, RecvOps
  <2>5. Accepted' \subseteq 1 .. sends'
    BY <2>1, <2>2
  <2> QED
    BY <2>3, <2>4, <2>5 DEF Truthful
<1>8. InLine' /\ Moves
  <2>1. CASE broken'
    BY <2>1, <1>0, Breaks DEF InLine
  <2>2. CASE ~broken'
    <3>0. broken' = broken
      BY <1>0, <1>1, <2>2 DEF Typed, TypeOK
    <3>1. /\ buf \in Seq(Values) /\ sends < MaxSends /\ sends + 1 \in Values
          /\ buf' = Append(buf, sends + 1) /\ UNCHANGED <<closed_flag, received, broken>>
      BY <1>0, <3>0 DEF Typed, TypeOK, Values
    <3>2. parked_send = <<>> /\ parked_send' = <<>>
      BY <1>0 DEF NoIdlePair, Shape
    <3>3. Offers = <<>> /\ Offers' = <<>> /\ InLine'
      BY <3>2, NoneInLine
    <3>4. Line' = Append(Line, sends + 1)
      <4>1. buf' \in Seq(Values)
        BY <3>1
      <4> QED
        BY <3>1, <3>3, <4>1, ConcatEmptySeq DEF Line
    <3> QED
      BY <1>0, <3>1, <3>3, <3>4, Arrives
  <2> QED
    BY <2>1, <2>2
<1> QED
  BY <1>1, <1>2, <1>3, <1>4, <1>5, <1>6, <1>7, <1>8 DEF IInv, Proceeds

\* A value is taken out of the buffer, and no sender is parked.
LEMMA TakeStep ==
  ASSUME IInv, ~broken, UNCHANGED kind, NEW a \in Callers, Ready(a),
         buf # <<>>, parked_send = <<>>, NEW o \in {"recv", "try_recv"},
         L!Take(a, o),
         UNCHANGED <<closed_flag, parked_send, parked_recv, sends, broken>>
  PROVE  Proceeds
<1> USE CapacityAssumption, MaxSendsAssumption, QueueFacts DEF Ready, TakesValue, NextValue, Done, Blocked, vars, L!Take, L!Done
<1>0. Typed /\ Shape /\ NoIdlePair /\ OneSender /\ NoStaleSender /\ WaitersListed /\ Truthful /\ InLine
  BY DEF IInv
<1>1. Typed'
  <2>1. /\ Head(buf) \in Values
        /\ buf' \in Seq(Values) /\ Len(buf') = Len(buf) - 1 /\ Len(buf) \in Nat
        /\ received' \in Seq(Values)
    BY <1>0 DEF Typed, TypeOK
  <2>2. call' \in [Callers -> [op : Ops, phase : Phases, val : 0 .. MaxSends, result : Results]]
    BY <1>0, <2>1 DEF Typed, TypeOK, Ops, Phases, Results, Values
  <2> QED
    BY <1>0, <2>1, <2>2 DEF Typed, TypeOK
<1>2. Shape'
  BY <1>0 DEF Shape, Typed, TypeOK
<1>3. NoIdlePair'
  BY <1>0 DEF NoIdlePair, Typed, TypeOK, Shape
<1>4. OneSender'
  BY <1>0 DEF OneSender, SendOps, Typed, TypeOK, Values
<1>5. NoStaleSender'
  BY <1>0 DEF NoStaleSender, Waiting, Typed, TypeOK, Values
<1>6. WaitersListed'
  BY <1>0, ElementFacts DEF WaitersListed, Typed, TypeOK, Shape
<1>7. Truthful'
  <2>1. /\ Accepted \subseteq 1 .. sends /\ \A p \in Callers : Answered(p)
        /\ buf \in Seq(Values) /\ received \in Seq(Values) /\ Head(buf) \in Values
        /\ received' = Append(received, Head(buf)) /\ buf' = Tail(buf)
        /\ UNCHANGED <<sends, closed_flag>>
        /\ \A p \in Callers \ {a} : call'[p] = call[p]
        /\ call'[a] = [op |-> o, phase |-> "done", val |-> Head(buf), result |-> "success"]
    BY <1>0 DEF Typed, TypeOK, Truthful
  <2>2. /\ ToSet(received') = ToSet(received) \cup {Head(buf)}
        /\ ToSet(buf) = ToSet(buf') \cup {Head(buf)}
    BY <2>1, ElementFacts
  <2>3. Accepted' = Accepted
    BY <2>2 DEF Accepted
  <2>4. \A p \in Callers \ {a} : Answered(p)'
    BY <2>1, <2>2, <2>3, StaysAnswered
  <2>5. Answered(a)'
    BY <2>1, <2>2 DEF Answered, Finished, SendOps
  <2> QED
    BY <2>1, <2>3, <2>4, <2>5 DEF Truthful
<1>8. InLine' /\ Moves
  <2>1. /\ buf \in Seq(Values) /\ Tail(buf) \in Seq(Values) /\ buf' = Tail(buf)
        /\ received' = Append(received, Head(buf))
        /\ parked_send' = <<>> /\ UNCHANGED <<closed_flag, broken>>
    BY <1>0 DEF Typed, TypeOK
  <2>2. Offers = <<>> /\ Offers' = <<>> /\ InLine'
    BY <2>1, NoneInLine
  <2>3. Line = buf /\ Line' = Tail(buf)
    BY <2>1, <2>2, ConcatEmptySeq DEF Line
  <2> QED
    BY <2>1, <2>2, <2>3, Leaves
<1> QED
  BY <1>1, <1>2, <1>3, <1>4, <1>5, <1>6, <1>7, <1>8 DEF IInv, Proceeds

\* A value is taken out of the buffer, and a parked sender's goes in.
LEMMA RefillStep ==
  ASSUME IInv, ~broken, UNCHANGED kind, NEW a \in Callers, Ready(a),
         buf # <<>>, parked_send # <<>>, kind = "buffered", NEW o \in {"recv", "try_recv"},
         B!Take(a, o),
         UNCHANGED <<closed_flag, parked_recv, sends, broken>>
  PROVE  Proceeds
<1>0. Typed /\ Shape /\ NoIdlePair /\ OneSender /\ NoStaleSender /\ WaitersListed /\ Truthful /\ InLine
  BY DEF IInv
<1>a. /\ buf \in Seq(Values) /\ received \in Seq(Values) /\ parked_send \in Seq(Values)
      /\ received' = Append(received, Head(buf))
      /\ buf' = Append(Tail(buf), Head(parked_send))
      /\ parked_send' = Tail(parked_send)
      /\ ~closed_flag
  BY <1>0 DEF Typed, TypeOK, NoIdlePair, B!Take
<1>b. /\ Head(buf) \in Values /\ Head(parked_send) \in Values
      /\ buf' \in Seq(Values) /\ Len(buf') = Len(buf)
      /\ received' \in Seq(Values)
      /\ parked_send' \in Seq(Values)
      /\ ToSet(parked_send) = ToSet(parked_send') \cup {Head(parked_send)}
      /\ Head(parked_send) \in ToSet(parked_send)
      /\ IsInjective(parked_send') /\ Head(parked_send) \notin ToSet(parked_send')
  <2>1. /\ Head(buf) \in Values /\ Tail(buf) \in Seq(Values)
        /\ Len(Tail(buf)) = Len(buf) - 1 /\ Len(buf) \in Nat
        /\ Head(parked_send) \in Values /\ Tail(parked_send) \in Seq(Values)
    BY <1>a, QueueFacts
  <2>2. /\ buf' \in Seq(Values) /\ Len(buf') = Len(Tail(buf)) + 1
        /\ received' \in Seq(Values)
    BY <1>a, <2>1, QueueFacts
  <2>3. /\ ToSet(parked_send) = ToSet(parked_send') \cup {Head(parked_send)}
        /\ Head(parked_send) \in ToSet(parked_send)
    BY <1>a, ElementFacts
  <2>4. IsInjective(parked_send') /\ Head(parked_send) \notin ToSet(parked_send')
    BY <1>0, <1>a, DistinctFacts DEF NoStaleSender
  <2> QED
    BY <1>a, <2>1, <2>2, <2>3, <2>4
<1>c. PICK h \in Callers :
        h = SenderOf(Head(parked_send)) /\ call[h] = Blocked("send", Head(parked_send))
  BY <1>0, <1>b, SenderFound DEF NoStaleSender
<1>d. h # a
  BY <1>c DEF Ready, Blocked
<1>e. call' = [call EXCEPT ![a] = Done(o, Head(buf), "success"),
                          ![h] = Done("send", Head(parked_send), "success")]
  BY <1>c DEF B!Take, B!SenderOf, SenderOf, B!Done, Done
<1>f. call' \in [Callers -> [op : Ops, phase : Phases, val : 0 .. MaxSends, result : Results]]
  <2> DEFINE R == [op : Ops, phase : Phases, val : 0 .. MaxSends, result : Results]
             x == Done(o, Head(buf), "success")
             y == Done("send", Head(parked_send), "success")
  <2>1. x \in R /\ y \in R
    BY <1>0, <1>b, <1>e DEF Done, Ops, Phases, Results, Values
  <2>2. call \in [Callers -> R] /\ call' = [call EXCEPT ![a] = x, ![h] = y]
    BY <1>0, <1>b, <1>e DEF Typed, TypeOK
  <2> HIDE DEF R, x, y
  <2>3. call' \in [Callers -> R]
    BY <2>1, <2>2
  <2> QED
    BY <2>3 DEF R
<1>g. /\ \A p \in Callers \ {a, h} : call'[p] = call[p]
      /\ call'[h] = Done("send", Head(parked_send), "success")
      /\ call'[a] = Done(o, Head(buf), "success")
  BY <1>0, <1>d, <1>e DEF Typed, TypeOK
<1>1. Typed'
  BY <1>0, <1>b, <1>f DEF Typed, TypeOK
<1>2. Shape'
  BY <1>0, <1>g DEF Shape, Done
<1>3. NoIdlePair'
  BY <1>0, <1>a, <1>b DEF NoIdlePair
<1>4. OneSender'
  <2>1. \A p \in Callers :
          call'[p].op \in SendOps => call[p].op \in SendOps /\ call'[p].val = call[p].val
    BY <1>c, <1>g DEF Done, Blocked, SendOps
  <2> QED
    BY <1>0, <2>1 DEF OneSender
<1>5. NoStaleSender'
  <2>1. \A v \in ToSet(parked_send') : v \in 1 .. sends /\ Waiting(v) /\ v # Head(parked_send)
    BY <1>0, <1>b DEF NoStaleSender
  <2>2. ASSUME NEW v \in ToSet(parked_send') PROVE Waiting(v)'
    <3>1. PICK p \in Callers : call[p] = Blocked("send", v)
      BY <2>1 DEF Waiting
    <3>2. p # a /\ p # h
      BY <3>1, <2>1, <1>c DEF Ready, Blocked
    <3> QED
      BY <3>1, <3>2, <1>g DEF Waiting
  <2> QED
    BY <2>1, <2>2, <1>b DEF NoStaleSender
<1>6. WaitersListed'
  <2> SUFFICES ASSUME NEW p \in Callers, call'[p].phase = "blocked"
               PROVE  /\ call'[p] = call[p]
                      /\ call[p].op = "send" => call[p].val # Head(parked_send)
    BY <1>0, <1>b DEF WaitersListed
  <2>1. p # a /\ p # h
    BY <1>g DEF Done
  <2>2. call[h].op = "send" /\ call[h].val = Head(parked_send)
    BY <1>c DEF Blocked
  <2> QED
    BY <1>0, <1>g, <2>1, <2>2 DEF OneSender, SendOps
<1>7. Truthful'
  <2> DEFINE v == Head(buf)
             w == Head(parked_send)
             rest == Tail(buf)
  <2>1. /\ Accepted \subseteq 1 .. sends /\ \A p \in Callers : Answered(p)
        /\ w \in 1 .. sends /\ call[h].op = "send" /\ call[h].val = w
    BY <1>0, <1>b, <1>c DEF Truthful, NoStaleSender, Blocked
  <2>2. /\ ToSet(received') = ToSet(received) \cup {v}
        /\ ToSet(buf) = ToSet(rest) \cup {v}
        /\ rest \in Seq(Values) /\ w \in Values
        /\ buf' = Append(rest, w)
    BY <1>a, <1>b, QueueFacts, ElementFacts
  <2> HIDE DEF v, w, rest
  <2>3. ToSet(buf') = ToSet(rest) \cup {w}
    BY <2>2, ElementFacts
  <2>4. Accepted' = Accepted \cup {w}
    BY <2>2, <2>3 DEF Accepted
  <2>5. ASSUME NEW p \in Callers \ {a, h} PROVE Answered(p)'
    <3>1. call[p].op \in SendOps => call[p].val # w
      BY <1>0, <2>1 DEF OneSender, SendOps
    <3> QED
      BY <1>g, <2>1, <2>2, <2>4, <3>1, StaysAnswered
  <2>6. Answered(a)'
    BY <1>g, <2>2 DEF Answered, Finished, Done, SendOps, v
  <2>7. Answered(h)'
    BY <1>g, <2>4 DEF Answered, Finished, Done, RecvOps, w
  <2> QED
    BY <2>1, <2>4, <2>5, <2>6, <2>7 DEF Truthful
<1>8. InLine' /\ Moves
  <2>1. /\ \A v \in ToSet(parked_send) : Waiting(v)
        /\ \A v \in ToSet(parked_send') : Waiting(v)'
    BY <1>0, <1>5, <1>a DEF NoStaleSender
  <2>2. Offers = parked_send /\ Offers' = parked_send'
    <3>1. /\ Head(parked_send) \in ToSet(parked_send)
          /\ parked_send' # <<>> => Head(parked_send') \in ToSet(parked_send')
      BY <1>b, ElementFacts
    <3> QED
      BY <2>1, <3>1 DEF Offers
  <2>3. InLine'
    <3>1. parked_send' # <<>> => ToSet(Tail(parked_send')) \subseteq ToSet(parked_send')
      BY <1>b, ElementFacts
    <3>2. ToSet(parked_send') \subseteq 1 .. sends'
      BY <1>0, <1>b DEF InLine
    <3> QED
      BY <1>b, <2>1, <3>1, <3>2 DEF InLine
  <2>4. Line # <<>> /\ Head(Line) = Head(buf) /\ Line' = Tail(Line)
    <3>1. /\ buf \o parked_send # <<>> /\ Head(buf \o parked_send) = Head(buf)
          /\ Append(Tail(buf), Head(parked_send)) \o Tail(parked_send) = Tail(buf \o parked_send)
      BY <1>a, RowFacts, SMTT(20)
    <3>2. /\ Line = buf \o parked_send
          /\ Line' = Append(Tail(buf), Head(parked_send)) \o Tail(parked_send)
      BY <1>a, <2>2 DEF Line
    <3> QED
      BY <3>1, <3>2
  <2> QED
    BY <1>a, <2>3, <2>4, Leaves
<1> QED
  BY <1>1, <1>2, <1>3, <1>4, <1>5, <1>6, <1>7, <1>8 DEF IInv, Proceeds

\* The value of a parked sender is received; try_recv() leaves the sender in its list.
LEMMA ResumeSenderStep ==
  ASSUME IInv, ~broken, UNCHANGED kind, NEW a \in Callers, Ready(a),
         parked_send # <<>>, kind = "unbuffered", NEW o \in {"recv", "try_recv"},
         U!ResumeSender(a, o, Head(parked_send)),
         parked_send' = parked_send \/ parked_send' = Tail(parked_send),
         UNCHANGED <<closed_flag, buf, parked_recv, sends>>
  PROVE  Proceeds
<1> USE DEF Ready, TakesValue, NextValue, Done, Blocked, vars, U!ResumeSender, U!Waiting, U!Alive, U!SenderOf, U!Done, U!Blocked
<1>0. Typed /\ Shape /\ NoIdlePair /\ OneSender /\ NoStaleSender /\ WaitersListed /\ Truthful /\ InLine
  BY DEF IInv
<1>a. /\ Head(parked_send) \in Values /\ parked_send' \in Seq(Values)
      /\ ToSet(parked_send) \subseteq ToSet(parked_send') \cup {Head(parked_send)}
  <2>1. parked_send \in Seq(Values)
    BY <1>0 DEF Typed, TypeOK
  <2>2. /\ Head(parked_send) \in Values /\ Tail(parked_send) \in Seq(Values)
        /\ ToSet(parked_send) = ToSet(Tail(parked_send)) \cup {Head(parked_send)}
    BY <2>1, QueueFacts, ElementFacts
  <2> QED
    BY <2>1, <2>2
<1>b. Append(received, Head(parked_send)) \in Seq(Values)
  BY <1>0, <1>a, QueueFacts DEF Typed, TypeOK
<1>c. parked_recv = <<>> /\ ~closed_flag
  BY <1>0 DEF NoIdlePair
<1>1. CASE Waiting(Head(parked_send))
  <2>1. PICK h \in Callers : h = SenderOf(Head(parked_send)) /\ call[h] = Blocked("send", Head(parked_send))
    BY <1>0, <1>1, SenderFound
  <2>2. /\ call' = [call EXCEPT ![a] = [op |-> o, phase |-> "done", val |-> Head(parked_send), result |-> "success"],
                                ![h] = [op |-> "send", phase |-> "done", val |-> Head(parked_send), result |-> "success"]]
        /\ received' = Append(received, Head(parked_send))
        /\ broken' = broken
    BY <1>1, <2>1 DEF Waiting, Alive, SenderOf
  <2>3. /\ h # a
        /\ \A p \in Callers \ {a, h} : call'[p] = call[p]
        /\ call'[h] = [op |-> "send", phase |-> "done", val |-> Head(parked_send), result |-> "success"]
        /\ call'[a] = [op |-> o, phase |-> "done", val |-> Head(parked_send), result |-> "success"]
    BY <1>0, <2>1, <2>2 DEF Typed, TypeOK
  <2>4. call' \in [Callers -> [op : Ops, phase : Phases, val : 0 .. MaxSends, result : Results]]
  <3> DEFINE R == [op : Ops, phase : Phases, val : 0 .. MaxSends, result : Results]
             x == [op |-> o, phase |-> "done", val |-> Head(parked_send), result |-> "success"]
             y == [op |-> "send", phase |-> "done", val |-> Head(parked_send), result |-> "success"]
  <3>1. x \in R /\ y \in R
    BY <1>0, <1>a, <2>1, <2>2 DEF Ops, Phases, Results, Values
  <3>2. call \in [Callers -> R] /\ call' = [call EXCEPT ![a] = x, ![h] = y]
    BY <1>0, <1>a, <2>1, <2>2 DEF Typed, TypeOK
  <3> HIDE DEF R, x, y
  <3>3. call' \in [Callers -> R]
    BY <3>2, <3>1
  <3> QED
    BY <3>3 DEF R
  <2>5. Typed'
    BY <1>0, <1>a, <1>b, <2>2, <2>4 DEF Typed, TypeOK
  <2>6. OneSender'
    BY <1>0, <2>1, <2>3 DEF OneSender, SendOps
  <2>7. WaitersListed'
    <3> SUFFICES ASSUME NEW p \in Callers, call'[p].phase = "blocked"
                 PROVE  \/ call'[p].op = "recv" /\ p \in ToSet(parked_recv') /\ ~closed_flag'
                        \/ call'[p].op = "send" /\ call'[p].val \in ToSet(parked_send') /\ ~closed_flag'
      BY DEF WaitersListed
    <3>1. p # a /\ p # h /\ call'[p] = call[p]
      BY <2>3
    <3>2. call[p].op = "send" => call[p].val # Head(parked_send)
      BY <1>0, <2>1, <3>1 DEF OneSender, SendOps
    <3> QED
      BY <1>0, <1>a, <1>c, <3>1, <3>2 DEF WaitersListed
  <2>8. Shape'
    BY <1>0, <2>3 DEF Shape
  <2>9. NoIdlePair'
    BY <1>0, <1>c DEF NoIdlePair
  <2>10. Truthful'
    <3> DEFINE v == Head(parked_send)
    <3>1. /\ Accepted \subseteq 1 .. sends /\ \A p \in Callers : Answered(p)
          /\ received \in Seq(Values)
      BY <1>0 DEF Truthful, Typed, TypeOK
    <3>2. v \in 1 .. sends
      BY <1>0, <2>1 DEF OneSender, SendOps
    <3>3. ToSet(received') = ToSet(received) \cup {v} /\ Accepted' = Accepted \cup {v}
      BY <1>a, <2>2, <3>1, ElementFacts DEF Accepted
    <3>4. ASSUME NEW p \in Callers \ {a, h} PROVE Answered(p)'
      <4>1. call[p].op \in SendOps => call[p].val # v
        BY <1>0, <2>1 DEF OneSender, SendOps
      <4> QED
        BY <2>3, <3>1, <3>3, <4>1, StaysAnswered
    <3>5. Answered(a)'
      BY <2>3, <3>3 DEF Answered, Finished, SendOps
    <3>6. Answered(h)'
      BY <2>3, <3>3 DEF Answered, Finished, RecvOps
    <3> QED
      BY <3>1, <3>2, <3>3, <3>4, <3>5, <3>6 DEF Truthful
  <2>11. InLine' /\ Moves
    <3>0. PICK v, rest : v = Head(parked_send) /\ rest = Tail(parked_send)
      OBVIOUS
    <3>1. /\ IsInjective(parked_send) /\ ToSet(parked_send) \subseteq 1 .. sends
          /\ \A w \in ToSet(rest) : Waiting(w)
          /\ parked_send \in Seq(Values) /\ buf = <<>>
      BY <1>0, <3>0 DEF InLine, Typed, TypeOK, Shape
    <3>2. /\ v \in ToSet(parked_send) /\ ToSet(parked_send) = ToSet(rest) \cup {v}
          /\ rest \in Seq(Values) /\ IsInjective(rest) /\ v \notin ToSet(rest)
      BY <3>0, <3>1, QueueFacts, ElementFacts, DistinctFacts
    <3>3. \A w \in ToSet(rest) : Waiting(w)'
      <4> SUFFICES ASSUME NEW w \in ToSet(rest) PROVE Waiting(w)'
        OBVIOUS
      <4>1. PICK p \in Callers : call[p] = Blocked("send", w)
        BY <3>1 DEF Waiting
      <4>2. p # a /\ p # h
        BY <2>1, <3>0, <3>2, <4>1
      <4> QED
        BY <2>3, <4>1, <4>2 DEF Waiting
    <3>4. ~Waiting(v)'
      <4> SUFFICES ASSUME NEW p \in Callers, call'[p] = Blocked("send", v) PROVE FALSE
        BY DEF Waiting
      <4>1. p # a /\ p # h /\ call[p] = Blocked("send", v)
        BY <2>3
      <4> QED
        BY <1>0, <2>1, <3>0, <4>1 DEF OneSender, SendOps
    <3>5. rest # <<>> => Head(rest) \in ToSet(rest) /\ ToSet(Tail(rest)) \subseteq ToSet(rest)
      BY <3>2, ElementFacts
    <3>6. Offers = parked_send /\ Offers' = rest
      <4>1. Offers = parked_send
        BY <1>1 DEF Offers
      <4>2. CASE parked_send' = parked_send
        BY <3>0, <3>4, <4>1, <4>2 DEF Offers
      <4>3. CASE parked_send' = rest
        BY <3>3, <3>5, <4>1, <4>3 DEF Offers
      <4> QED
        BY <3>0, <4>1, <4>2, <4>3
    <3>7. InLine'
      <4>1. CASE parked_send' = parked_send
        BY <3>0, <3>1, <3>3, <4>1 DEF InLine
      <4>2. CASE parked_send' = rest
        BY <3>1, <3>2, <3>3, <3>5, <4>2 DEF InLine
      <4> QED
        BY <3>0, <4>1, <4>2
    <3>8. Line = parked_send /\ Line' = rest
      BY <3>1, <3>2, <3>6, ConcatEmptySeq DEF Line
    <3> QED
      BY <2>2, <3>0, <3>7, <3>8, Leaves
  <2> QED
    BY <1>0, <2>5, <2>6, <2>7, <2>8, <2>9, <2>10, <2>11 DEF IInv, NoStaleSender, Proceeds<1>2. CASE ~Waiting(Head(parked_send))
  <2>1. /\ broken' = TRUE
        /\ \/ /\ call' = [call EXCEPT ![a] = [op |-> o, phase |-> "done", val |-> Head(parked_send), result |-> "success"]]
              /\ received' = Append(received, Head(parked_send))
           \/ UNCHANGED <<call, received>>
    BY <1>2 DEF Waiting, Alive
  <2>2. call' \in [Callers -> [op : Ops, phase : Phases, val : 0 .. MaxSends, result : Results]]
    <3> DEFINE R == [op : Ops, phase : Phases, val : 0 .. MaxSends, result : Results]
               x == [op |-> o, phase |-> "done", val |-> Head(parked_send), result |-> "success"]
    <3>1. x \in R
      BY <1>a DEF Ops, Phases, Results, Values
    <3>2. call \in [Callers -> R] /\ (call' = [call EXCEPT ![a] = x] \/ call' = call)
      BY <1>0, <2>1 DEF Typed, TypeOK
    <3> HIDE DEF R, x
    <3>3. call' \in [Callers -> R]
      BY <3>2, <3>1
    <3> QED
      BY <3>3 DEF R
  <2>3. Typed'
    BY <1>0, <1>a, <1>b, <2>1, <2>2 DEF Typed, TypeOK
  <2>4. \A p \in Callers : call'[p] = call[p] \/ call'[p].op = o
    BY <1>0, <2>1 DEF Typed, TypeOK
  <2>5. OneSender'
    BY <1>0, <2>4 DEF OneSender, SendOps
  <2>6. Shape'
    <3>1. \A p \in Callers : call'[p] = call[p] \/ call'[p].phase = "done"
      BY <1>0, <2>1 DEF Typed, TypeOK
    <3> QED
      BY <1>0, <3>1 DEF Shape
  <2>7. InLine' /\ Moves
    BY <2>1, Breaks DEF InLine
  <2> QED
    BY <1>0, <2>1, <2>3, <2>5, <2>6, <2>7
       DEF IInv, NoIdlePair, NoStaleSender, WaitersListed, Truthful, Proceeds<1> QED
  BY <1>1, <1>2

\* The channel is closed and the parked callers are resumed.
LEMMA CloseStep ==
  ASSUME IInv, ~broken, UNCHANGED kind, NEW a \in Callers,
         Close(a)
  PROVE  Proceeds
<1> USE DEF Ready, TakesValue, NextValue, Done, Blocked, vars, Close, CloseCalls
<1>0. Typed /\ Shape /\ NoIdlePair /\ OneSender /\ NoStaleSender /\ WaitersListed /\ Truthful /\ InLine
  BY DEF IInv
<1>1. Typed'
  <2> DEFINE R == [op : Ops, phase : Phases, val : 0 .. MaxSends, result : Results]
  <2>1. \A p \in Callers :
          call'[p] = call[p] \/ \E o \in Ops : call'[p] = Done(o, 0, "closed") \/ call'[p] = Done(o, call[p].val, "closed")
    BY DEF Ops
  <2>2. \A p \in Callers : call[p] \in R /\ call[p].val \in 0 .. MaxSends
    BY <1>0 DEF Typed, TypeOK
  <2>3. \A o \in Ops, v \in 0 .. MaxSends : [op |-> o, phase |-> "done", val |-> v, result |-> "closed"] \in R
    BY DEF Phases, Results
  <2> HIDE DEF R
  <2>4. ASSUME NEW p \in Callers PROVE call'[p] \in R
    <3>1. 0 \in 0 .. MaxSends /\ call[p].val \in 0 .. MaxSends /\ call[p] \in R
      BY <2>2, MaxSendsAssumption
    <3>2. PICK o \in Ops : \/ call'[p] = call[p]
                           \/ call'[p] = [op |-> o, phase |-> "done", val |-> 0, result |-> "closed"]
                           \/ call'[p] = [op |-> o, phase |-> "done", val |-> call[p].val, result |-> "closed"]
      BY <2>1 DEF Ops
    <3> QED
      BY <3>1, <3>2, <2>3
  <2>5. call' \in [Callers -> R]
    BY <2>4 DEF CloseCalls
  <2>6. <<>> \in Seq(Values) /\ <<>> \in Seq(Callers)
    OBVIOUS
  <2> QED
    BY <1>0, <2>5, <2>6 DEF Typed, TypeOK, R
<1>2. Shape'
  BY <1>0 DEF Shape, Typed, TypeOK, NoIdlePair
<1>3. NoIdlePair'
  BY <1>0, CapacityAssumption, QueueFacts DEF NoIdlePair, Typed, TypeOK, Shape
<1>4. OneSender'
  BY <1>0 DEF OneSender, SendOps, Typed, TypeOK, Values
<1>5. NoStaleSender'
  BY <1>0 DEF NoStaleSender, ToSet, IsInjective
<1>6. WaitersListed'
  <2> SUFFICES ASSUME NEW p \in Callers PROVE call'[p].phase # "blocked"
    BY DEF WaitersListed
  <2>1. CASE call[p].phase # "blocked"
    BY <2>1, <1>0 DEF Typed, TypeOK
  <2>2. CASE call[p].phase = "blocked" /\ call[p].op = "recv"
    BY <2>2, <1>0 DEF WaitersListed, Typed, TypeOK
  <2>3. CASE call[p].phase = "blocked" /\ call[p].op = "send" /\ call[p].result = "none"
    BY <2>3, <1>0 DEF WaitersListed, Typed, TypeOK
  <2> QED
    BY <2>1, <2>2, <2>3, <1>0 DEF WaitersListed, Shape
<1>7. Truthful'
  <2>1. /\ Accepted \subseteq 1 .. sends /\ \A p \in Callers : Answered(p)
        /\ Accepted' = Accepted /\ UNCHANGED <<received, buf, sends>> /\ closed_flag'
    BY <1>0 DEF Truthful, Accepted
  <2>2. ASSUME NEW p \in Callers PROVE Answered(p)'
    <3>1. CASE p \in ToSet(parked_recv)
      <4>1. call'[p] = [op |-> "recv", phase |-> "done", val |-> 0, result |-> "closed"]
        BY <3>1
      <4>2. parked_recv # <<>>
        BY <3>1 DEF ToSet
      <4> QED
        BY <1>0, <2>1, <4>1, <4>2 DEF NoIdlePair, Answered, Finished, SendOps
    <3>2. CASE /\ p \notin ToSet(parked_recv)
               /\ \E v \in ToSet(parked_send) : call[p] = Blocked("send", v)
      <4>1. /\ call'[p] = [op |-> "send", phase |-> "done", val |-> call[p].val, result |-> "closed"]
            /\ call[p].op = "send" /\ call[p].result = "none"
        BY <3>2
      <4> QED
        BY <2>1, <4>1 DEF Answered, Finished, SendOps, RecvOps
    <3>3. CASE call'[p] = call[p]
      BY <2>1, <3>3, StaysAnswered
    <3> QED
      BY <3>1, <3>2, <3>3
  <2> QED
    BY <2>1, <2>2 DEF Truthful
<1>8. InLine' /\ Moves
  <2>1. InLine'
    BY NoneInLine
  <2>2. CASE broken'
    BY <2>1, <2>2, Breaks
  <2>3. CASE ~broken'
    <3>0. broken' = broken
      BY <1>0, <1>1, <2>3 DEF Typed, TypeOK
    <3>1. broken' = broken /\ UNCHANGED <<buf, received>> /\ ~closed_flag /\ closed_flag' = TRUE
      BY <3>0
    <3> QED
      BY <1>0, <2>1, <3>1, Shuts
  <2> QED
    BY <2>2, <2>3
<1> QED
  BY <1>1, <1>2, <1>3, <1>4, <1>5, <1>6, <1>7, <1>8 DEF IInv, Proceeds

\* The caller leaves its call.
LEMMA ReturnStep ==
  ASSUME IInv, ~broken, UNCHANGED kind, NEW a \in Callers,
         Return(a)
  PROVE  Proceeds
<1> USE CapacityAssumption, MaxSendsAssumption, QueueFacts DEF Ready, TakesValue, NextValue, Done, Blocked, vars, Return, Idle
<1>0. Typed /\ Shape /\ NoIdlePair /\ OneSender /\ NoStaleSender /\ WaitersListed /\ Truthful /\ InLine
  BY DEF IInv
<1>1. Typed'
  BY <1>0 DEF Typed, TypeOK, Shape, NoIdlePair, Ops, Phases, Results, Values
<1>2. Shape'
  BY <1>0 DEF Shape, Typed, TypeOK
<1>3. NoIdlePair'
  BY <1>0 DEF NoIdlePair, Typed, TypeOK, Shape
<1>4. OneSender'
  BY <1>0 DEF OneSender, SendOps, Typed, TypeOK, Values
<1>5. NoStaleSender'
  BY <1>0 DEF NoStaleSender, Waiting, Typed, TypeOK, Values
<1>6. WaitersListed'
  BY <1>0, ElementFacts DEF WaitersListed, Typed, TypeOK, Shape
<1>7. Truthful'
  <2>1. /\ Accepted \subseteq 1 .. sends /\ \A p \in Callers : Answered(p)
        /\ Accepted' = Accepted /\ UNCHANGED <<received, buf, closed_flag, sends>>
        /\ \A p \in Callers \ {a} : call'[p] = call[p]
        /\ call'[a] = [op |-> "none", phase |-> "idle", val |-> 0, result |-> "none"]
    BY <1>0 DEF Typed, TypeOK, Truthful, Accepted
  <2>2. \A p \in Callers \ {a} : Answered(p)'
    BY <2>1, StaysAnswered
  <2>3. Answered(a)'
    BY <2>1 DEF Answered, Finished, SendOps
  <2> QED
    BY <2>1, <2>2, <2>3 DEF Truthful
<1>8. InLine' /\ Moves
  <2>1. /\ \A p \in Callers \ {a} : call'[p] = call[p]
        /\ call[a].phase # "blocked" /\ call'[a].phase # "blocked"
        /\ UNCHANGED <<closed_flag, buf, parked_send, received, broken, sends>>
        /\ parked_send \in Seq(Values) /\ sends \in Nat
    BY <1>0 DEF Typed, TypeOK
  <2>2. \A v \in ToSet(parked_send) : Waiting(v)' <=> Waiting(v)
    BY <2>1, IdleStays
  <2>3. InLine' /\ Offers' = Offers
    BY <1>0, <2>1, <2>2, QueueStays
  <2> QED
    BY <2>1, <2>3, Rests
<1> QED
  BY <1>1, <1>2, <1>3, <1>4, <1>5, <1>6, <1>7, <1>8 DEF IInv, Proceeds

-----------------------------------------------------------------------------
(* The operations of each implementation.                                  *)

\* A call, close() or return of an unbuffered channel.
LEMMA UnbufferedStep ==
  ASSUME IInv, ~broken, UNCHANGED kind, kind = "unbuffered", U!Next
  PROVE  Proceeds
<1>0. PICK a \in Callers :
        U!Send(a) \/ U!Recv(a) \/ U!TrySend(a) \/ U!TryRecv(a) \/ U!Close(a) \/ U!Return(a)
  BY DEF U!Next
<1>a. MaxSends \in Nat /\ sends \in 0 .. MaxSends /\ buf = <<>>
  BY MaxSendsAssumption DEF IInv, Typed, TypeOK, Shape
<1>b. parked_recv # <<>> => parked_send = <<>> /\ ~closed_flag
  BY DEF IInv, NoIdlePair
<1>1. CASE U!Send(a)
  <2>0. Ready(a) /\ TakesValue /\ NextValue \in 0 .. MaxSends
    BY <1>1, <1>a DEF U!Send, U!Ready, U!TakesValue, U!NextValue, Ready, TakesValue, NextValue
  <2>1. CASE closed_flag /\ U!Answer(a, "send", NextValue, "closed")
    <3>1. Answer(a, "send", NextValue, "closed")
      BY <2>1 DEF U!Answer, U!Done, Answer, Done
    <3> QED
      BY <2>0, <2>1, <3>1, AnswerStep DEF Ops, Results, SendOps, RecvOps
  <2>2. CASE ~closed_flag /\ parked_recv # <<>> /\ U!HandOver(a, "send", NextValue)
    BY <2>0, <2>2, HandOverStep
  <2>3. CASE ~closed_flag /\ parked_recv = <<>> /\ U!ParkSender(a, NextValue)
    <3>1. ParkSender(a, NextValue)
      BY <2>3 DEF U!ParkSender, U!Blocked, ParkSender, Blocked
    <3> QED
      BY <2>0, <2>3, <3>1, ParkSenderStep
  <2> QED
    BY <1>1, <2>1, <2>2, <2>3 DEF U!Send, U!NextValue, NextValue
<1>2. CASE U!Recv(a)
  <2>0. Ready(a)
    BY <1>2 DEF U!Recv, U!Ready, Ready
  <2>1. CASE closed_flag /\ U!Answer(a, "recv", 0, "closed") /\ UNCHANGED sends
    <3>1. Answer(a, "recv", 0, "closed")
      BY <2>1 DEF U!Answer, U!Done, Answer, Done
    <3> QED
      BY <1>a, <2>0, <2>1, <3>1, AnswerStep DEF Ops, Results, SendOps, RecvOps
  <2>2. CASE /\ ~closed_flag /\ parked_send # <<>>
             /\ U!ResumeSender(a, "recv", Head(parked_send))
             /\ parked_send' = Tail(parked_send)
             /\ UNCHANGED <<closed_flag, buf, parked_recv, sends>>
    BY <2>0, <2>2, ResumeSenderStep
  <2>3. CASE ~closed_flag /\ parked_send = <<>> /\ U!ParkReceiver(a)
    <3>1. ParkReceiver(a)
      BY <2>3 DEF U!ParkReceiver, U!Blocked, ParkReceiver, Blocked
    <3> QED
      BY <1>a, <2>0, <2>3, <3>1, ParkReceiverStep
  <2> QED
    BY <1>2, <2>1, <2>2, <2>3 DEF U!Recv
<1>3. CASE U!TrySend(a)
  <2>0. Ready(a) /\ TakesValue /\ NextValue \in 0 .. MaxSends
    BY <1>3, <1>a DEF U!TrySend, U!Ready, U!TakesValue, U!NextValue, Ready, TakesValue, NextValue
  <2>1. ASSUME NEW r \in {"closed", "failure"}, U!Answer(a, "try_send", NextValue, r),
             r = "closed" => closed_flag
        PROVE  Proceeds
    <3>1. Answer(a, "try_send", NextValue, r)
      BY <2>1 DEF U!Answer, U!Done, Answer, Done
    <3> QED
      BY <2>0, <2>1, <3>1, AnswerStep DEF Ops, Results, SendOps, RecvOps
  <2>2. CASE ~closed_flag /\ parked_recv # <<>> /\ U!HandOver(a, "try_send", NextValue)
    BY <2>0, <2>2, HandOverStep
  <2> QED
    BY <1>3, <2>1, <2>2 DEF U!TrySend, U!NextValue, NextValue
<1>4. CASE U!TryRecv(a)
  <2>0. Ready(a)
    BY <1>4 DEF U!TryRecv, U!Ready, Ready
  <2>1. ASSUME NEW r \in {"closed", "failure"}, U!Answer(a, "try_recv", 0, r), UNCHANGED sends,
             r = "closed" => closed_flag
        PROVE  Proceeds
    <3>1. Answer(a, "try_recv", 0, r)
      BY <2>1 DEF U!Answer, U!Done, Answer, Done
    <3> QED
      BY <1>a, <2>0, <2>1, <3>1, AnswerStep DEF Ops, Results, SendOps, RecvOps
  <2>2. CASE /\ ~closed_flag /\ parked_send # <<>>
             /\ U!ResumeSender(a, "try_recv", Head(parked_send))
             /\ UNCHANGED <<closed_flag, buf, parked_send, parked_recv, sends>>
    BY <2>0, <2>2, ResumeSenderStep
  <2> QED
    BY <1>4, <2>1, <2>2 DEF U!TryRecv
<1>5. CASE U!Close(a)
  <2>1. U!CloseCalls = CloseCalls
    <3>1. \A o, v, r : U!Blocked(o, v) = Blocked(o, v) /\ U!Done(o, v, r) = Done(o, v, r)
      BY DEF U!Blocked, U!Done, Blocked, Done
    <3> QED
      BY <3>1 DEF U!CloseCalls, U!ToSet, CloseCalls, ToSet
  <2>2. (\E v \in U!ToSet(parked_send) : ~U!Alive(v)) = (\E v \in ToSet(parked_send) : ~Alive(v))
    BY DEF U!Alive, U!ToSet, Alive, ToSet
  <2>3. Close(a)
    BY <1>5, <2>1, <2>2 DEF U!Close, U!Ready, Close, Ready
  <2> QED
    BY <2>3, CloseStep
<1>6. CASE U!Return(a)
  <2>1. Return(a)
    BY <1>6 DEF U!Return, U!Idle, Return, Idle
  <2> QED
    BY <2>1, ReturnStep
<1> QED
  BY <1>0, <1>1, <1>2, <1>3, <1>4, <1>5, <1>6

\* A call, close() or return of a buffered channel.
LEMMA BufferedStep ==
  ASSUME IInv, ~broken, UNCHANGED kind, kind = "buffered", B!Next
  PROVE  Proceeds
<1>0. PICK a \in Callers :
        B!Send(a) \/ B!Recv(a) \/ B!TrySend(a) \/ B!TryRecv(a) \/ B!Close(a) \/ B!Return(a)
  BY DEF B!Next
<1>a. /\ MaxSends \in Nat /\ sends \in 0 .. MaxSends /\ buf \in Seq(Values)
      /\ broken = FALSE /\ Capacity # 0 /\ Len(<<>>) = 0
  BY MaxSendsAssumption, CapacityAssumption DEF IInv, Typed, TypeOK
<1>b. /\ parked_recv # <<>> => buf = <<>> /\ parked_send = <<>>
      /\ parked_send # <<>> => Len(buf) = Capacity
  BY DEF IInv, NoIdlePair
<1>c. ASSUME NEW o \in {"recv", "try_recv"}, Ready(a), buf # <<>>, B!Take(a, o),
             UNCHANGED <<closed_flag, parked_recv, sends, broken>>
      PROVE  Proceeds
  <2>1. CASE parked_send # <<>>
    BY <1>c, <2>1, RefillStep
  <2>2. CASE parked_send = <<>>
    <3>1. L!Take(a, o) /\ UNCHANGED parked_send
      BY <1>c, <2>2 DEF B!Take, B!Done, L!Take, L!Done
    <3> QED
      BY <1>c, <2>2, <3>1, TakeStep
  <2> QED
    BY <2>1, <2>2
<1>1. CASE B!Send(a)
  <2>0. Ready(a) /\ TakesValue /\ NextValue \in 0 .. MaxSends /\ NextValue \in Values
    BY <1>1, <1>a DEF B!Send, B!Ready, B!TakesValue, B!NextValue, Ready, TakesValue, NextValue, Values
  <2>1. CASE closed_flag /\ B!StrandSender(a, NextValue)
    BY <2>0, <2>1, StrandStep
  <2>2. CASE ~closed_flag /\ B!Full /\ B!ParkSender(a, NextValue)
    <3>1. ParkSender(a, NextValue) /\ Len(buf) = Capacity
      BY <2>2 DEF B!ParkSender, B!Blocked, ParkSender, Blocked, B!Full
    <3>2. parked_recv = <<>>
      BY <1>a, <1>b, <3>1
    <3> QED
      BY <2>0, <2>2, <3>1, <3>2, ParkSenderStep
  <2>3. CASE /\ ~closed_flag /\ ~B!Full
             /\ B!Store(a, NextValue)
             /\ UNCHANGED <<closed_flag, parked_send, broken>>
    <3>1. CASE parked_recv = <<>>
      <4>1. /\ call' = [call EXCEPT ![a] = Done("send", NextValue, "success")]
            /\ buf' = Append(buf, NextValue)
            /\ UNCHANGED <<closed_flag, parked_send, parked_recv, received>>
        BY <2>3, <3>1 DEF B!Store, B!Done, Done
      <4>2. Len(buf) # Capacity
        BY <2>3 DEF B!Full
      <4> QED
        BY <1>a, <2>0, <2>3, <3>1, <4>1, <4>2, StoreStep
    <3>2. CASE parked_recv # <<>>
      <4>1. /\ Head(Append(buf, NextValue)) = NextValue
            /\ Tail(Append(buf, NextValue)) = buf
        BY <1>a, <1>b, <3>2, HeadTailAppend
      <4>2. U!HandOver(a, "send", NextValue)
        BY <2>3, <3>2, <4>1 DEF B!Store, B!Done, U!HandOver, U!Done
      <4> QED
        BY <2>0, <3>2, <4>2, HandOverStep
    <3> QED
      BY <3>1, <3>2
  <2> QED
    BY <1>1, <2>1, <2>2, <2>3 DEF B!Send, B!NextValue, NextValue
<1>2. CASE B!Recv(a)
  <2>0. Ready(a) /\ UNCHANGED sends
    BY <1>2 DEF B!Recv, B!Ready, Ready
  <2>1. CASE buf = <<>> /\ closed_flag /\ B!Answer(a, "recv", 0, "closed")
    <3>1. Answer(a, "recv", 0, "closed")
      BY <2>1 DEF B!Answer, B!Done, Answer, Done
    <3> QED
      BY <1>a, <2>0, <2>1, <3>1, AnswerStep DEF Ops, Results, SendOps, RecvOps
  <2>2. CASE buf = <<>> /\ ~closed_flag /\ B!ParkReceiver(a)
    <3>1. ParkReceiver(a)
      BY <2>2 DEF B!ParkReceiver, B!Blocked, ParkReceiver, Blocked
    <3>2. parked_send = <<>>
      BY <1>a, <1>b, <2>2
    <3> QED
      BY <2>0, <2>2, <3>1, <3>2, ParkReceiverStep
  <2>3. CASE buf # <<>> /\ B!Take(a, "recv") /\ UNCHANGED <<closed_flag, parked_recv, broken>>
    BY <1>c, <2>0, <2>3
  <2> QED
    BY <1>2, <2>1, <2>2, <2>3 DEF B!Recv
<1>3. CASE B!TrySend(a)
  <2>0. Ready(a) /\ TakesValue /\ NextValue \in 0 .. MaxSends /\ NextValue \in Values
    BY <1>3, <1>a DEF B!TrySend, B!Ready, B!TakesValue, B!NextValue, Ready, TakesValue, NextValue, Values
  <2>1. ASSUME NEW r \in {"closed", "failure"}, B!Answer(a, "try_send", NextValue, r),
             r = "closed" => closed_flag
        PROVE  Proceeds
    <3>1. Answer(a, "try_send", NextValue, r)
      BY <2>1 DEF B!Answer, B!Done, Answer, Done
    <3> QED
      BY <2>0, <2>1, <3>1, AnswerStep DEF Ops, Results, SendOps, RecvOps
  <2>2. CASE /\ ~closed_flag /\ ~B!Full
             /\ buf' = Append(buf, NextValue)
             /\ broken' = (parked_recv # <<>>)
             /\ call' = [call EXCEPT ![a] = B!Done("try_send", NextValue, "success")]
             /\ UNCHANGED <<closed_flag, parked_send, parked_recv, received>>
    <3>1. call' = [call EXCEPT ![a] = Done("try_send", NextValue, "success")] /\ Len(buf) # Capacity
      BY <2>2 DEF B!Done, Done, B!Full
    <3> QED
      BY <2>0, <2>2, <3>1, StoreStep
  <2> QED
    BY <1>3, <2>1, <2>2 DEF B!TrySend, B!NextValue, NextValue
<1>4. CASE B!TryRecv(a)
  <2>0. Ready(a) /\ UNCHANGED sends
    BY <1>4 DEF B!TryRecv, B!Ready, Ready
  <2>1. ASSUME NEW r \in {"closed", "failure"}, B!Answer(a, "try_recv", 0, r),
             r = "closed" => closed_flag, buf = <<>>
        PROVE  Proceeds
    <3>1. Answer(a, "try_recv", 0, r)
      BY <2>1 DEF B!Answer, B!Done, Answer, Done
    <3> QED
      BY <1>a, <2>0, <2>1, <3>1, AnswerStep DEF Ops, Results, SendOps, RecvOps
  <2>2. CASE buf # <<>> /\ B!Take(a, "try_recv") /\ UNCHANGED <<closed_flag, parked_recv, broken>>
    BY <1>c, <2>0, <2>2
  <2> QED
    BY <1>4, <2>1, <2>2 DEF B!TryRecv
<1>5. CASE B!Close(a)
  <2>1. B!CloseCalls = CloseCalls
    <3>1. \A o, v, r : B!Blocked(o, v) = Blocked(o, v) /\ B!Done(o, v, r) = Done(o, v, r)
      BY DEF B!Blocked, B!Done, Blocked, Done
    <3> QED
      BY <3>1 DEF B!CloseCalls, B!ToSet, CloseCalls, ToSet
  <2>2. (\E v \in B!ToSet(parked_send) : ~B!Alive(v)) = (\E v \in ToSet(parked_send) : ~Alive(v))
    BY DEF B!Alive, B!ToSet, Alive, ToSet
  <2>3. Close(a)
    BY <1>5, <2>1, <2>2 DEF B!Close, B!Ready, Close, Ready
  <2> QED
    BY <2>3, CloseStep
<1>6. CASE B!Return(a)
  <2>1. Return(a)
    BY <1>6 DEF B!Return, B!Idle, Return, Idle
  <2> QED
    BY <2>1, ReturnStep
<1> QED
  BY <1>0, <1>1, <1>2, <1>3, <1>4, <1>5, <1>6

\* A call, close() or return of an unlimited channel.
LEMMA UnlimitedStep ==
  ASSUME IInv, ~broken, UNCHANGED kind, kind = "unlimited", L!Next
  PROVE  Proceeds
<1>0. PICK a \in Callers :
        L!Send(a) \/ L!Recv(a) \/ L!TrySend(a) \/ L!TryRecv(a) \/ L!Close(a) \/ L!Return(a)
  BY DEF L!Next
<1>a. /\ MaxSends \in Nat /\ sends \in 0 .. MaxSends /\ buf \in Seq(Values)
      /\ broken = FALSE /\ parked_send = <<>>
  BY MaxSendsAssumption DEF IInv, Typed, TypeOK, Shape
<1>b. parked_recv # <<>> => buf = <<>>
  BY DEF IInv, NoIdlePair
<1>1. ASSUME NEW o \in {"send", "try_send"}, L!SendAs(a, o) PROVE Proceeds
  <2>0. Ready(a) /\ TakesValue /\ NextValue \in 0 .. MaxSends /\ NextValue \in Values
    BY <1>1, <1>a DEF L!SendAs, L!Ready, L!TakesValue, L!NextValue, Ready, TakesValue, NextValue, Values
  <2>1. CASE closed_flag /\ L!Answer(a, o, NextValue, "closed")
    <3>1. Answer(a, o, NextValue, "closed")
      BY <2>1 DEF L!Answer, L!Done, Answer, Done
    <3> QED
      BY <2>0, <2>1, <3>1, AnswerStep DEF Ops, Results, SendOps, RecvOps
  <2>2. CASE ~closed_flag /\ L!Store(a, o, NextValue) /\ UNCHANGED <<closed_flag, parked_send, broken>>
    <3>1. CASE parked_recv = <<>>
      <4>1. /\ call' = [call EXCEPT ![a] = Done(o, NextValue, "success")]
            /\ buf' = Append(buf, NextValue)
            /\ UNCHANGED <<closed_flag, parked_send, parked_recv, received>>
        BY <2>2, <3>1 DEF L!Store, L!Done, Done
      <4> QED
        BY <1>a, <2>0, <2>2, <3>1, <4>1, StoreStep
    <3>2. CASE parked_recv # <<>>
      <4>1. /\ Head(Append(buf, NextValue)) = NextValue
            /\ Tail(Append(buf, NextValue)) = buf
        BY <1>a, <1>b, <3>2, HeadTailAppend
      <4>2. U!HandOver(a, o, NextValue)
        BY <2>2, <3>2, <4>1 DEF L!Store, L!Done, U!HandOver, U!Done
      <4> QED
        BY <2>0, <3>2, <4>2, HandOverStep
    <3> QED
      BY <3>1, <3>2
  <2> QED
    BY <1>1, <2>1, <2>2 DEF L!SendAs, L!NextValue, NextValue
<1>2. CASE L!Recv(a)
  <2>0. Ready(a) /\ UNCHANGED sends
    BY <1>2 DEF L!Recv, L!Ready, Ready
  <2>1. CASE buf = <<>> /\ closed_flag /\ L!Answer(a, "recv", 0, "closed")
    <3>1. Answer(a, "recv", 0, "closed")
      BY <2>1 DEF L!Answer, L!Done, Answer, Done
    <3> QED
      BY <1>a, <2>0, <2>1, <3>1, AnswerStep DEF Ops, Results, SendOps, RecvOps
  <2>2. CASE buf = <<>> /\ ~closed_flag /\ L!ParkReceiver(a)
    <3>1. ParkReceiver(a)
      BY <2>2 DEF L!ParkReceiver, L!Blocked, ParkReceiver, Blocked
    <3> QED
      BY <1>a, <2>0, <2>2, <3>1, ParkReceiverStep
  <2>3. CASE buf # <<>> /\ L!Take(a, "recv") /\ UNCHANGED <<closed_flag, parked_send, parked_recv, broken>>
    BY <1>a, <2>0, <2>3, TakeStep
  <2> QED
    BY <1>2, <2>1, <2>2, <2>3 DEF L!Recv
<1>3. CASE L!TryRecv(a)
  <2>0. Ready(a) /\ UNCHANGED sends
    BY <1>3 DEF L!TryRecv, L!Ready, Ready
  <2>1. ASSUME NEW r \in {"closed", "failure"}, L!Answer(a, "try_recv", 0, r),
             r = "closed" => closed_flag, buf = <<>>
        PROVE  Proceeds
    <3>1. Answer(a, "try_recv", 0, r)
      BY <2>1 DEF L!Answer, L!Done, Answer, Done
    <3> QED
      BY <1>a, <2>0, <2>1, <3>1, AnswerStep DEF Ops, Results, SendOps, RecvOps
  <2>2. CASE buf # <<>> /\ L!Take(a, "try_recv") /\ UNCHANGED <<closed_flag, parked_send, parked_recv, broken>>
    BY <1>a, <2>0, <2>2, TakeStep
  <2> QED
    BY <1>3, <2>1, <2>2 DEF L!TryRecv
<1>4. CASE L!Close(a)
  <2>1. L!CloseCalls = CloseCalls
    <3>1. \A o, v, r : L!Blocked(o, v) = Blocked(o, v) /\ L!Done(o, v, r) = Done(o, v, r)
      BY DEF L!Blocked, L!Done, Blocked, Done
    <3> QED
      BY <3>1 DEF L!CloseCalls, L!ToSet, CloseCalls, ToSet
  <2>2. (\E v \in L!ToSet(parked_send) : ~L!Alive(v)) = (\E v \in ToSet(parked_send) : ~Alive(v))
    BY DEF L!Alive, L!ToSet, Alive, ToSet
  <2>3. Close(a)
    BY <1>4, <2>1, <2>2 DEF L!Close, L!Ready, Close, Ready
  <2> QED
    BY <2>3, CloseStep
<1>5. CASE L!Return(a)
  <2>1. Return(a)
    BY <1>5 DEF L!Return, L!Idle, Return, Idle
  <2> QED
    BY <2>1, ReturnStep
<1> QED
  BY <1>0, <1>1, <1>2, <1>3, <1>4, <1>5 DEF L!Send, L!TrySend

-----------------------------------------------------------------------------

\* IInv is inductive, and every step of the code is one of the contract.
LEMMA Inductive == IInv /\ [ChanNext]_ChanVars => Proceeds
<1> SUFFICES ASSUME IInv, [ChanNext]_ChanVars PROVE Proceeds
  OBVIOUS
<1>1. CASE ChanNext
  BY <1>1, UnbufferedStep, BufferedStep, UnlimitedStep DEF ChanNext
<1>2. CASE UNCHANGED ChanVars
  <2>1. IInv'
    BY <1>2 DEF ChanVars, vars, IInv, Typed, TypeOK, Shape, NoIdlePair, OneSender, NoStaleSender,
                WaitersListed, Waiting, Blocked, Truthful, Answered, Accepted, Finished, InLine
  <2>2. Moves
    BY <1>2 DEF ChanVars, vars, Moves, Contract!vars, Line, Offers, Waiting
  <2> QED
    BY <2>1, <2>2 DEF Proceeds
<1> QED
  BY <1>1, <1>2

\* The inductive invariant holds of every use of a channel.
THEOREM Invariant == Spec => []IInv
<1> QED
  BY Initial, Inductive, PTL DEF Spec, Proceeds

\* Every variable of a channel keeps its type, and a buffered channel never
\* holds more than the size it was constructed with, whatever calls are made.
THEOREM ChannelTyped == Spec => []Typed
<1>1. IInv => Typed
  BY DEF IInv
<1> QED
  BY <1>1, Invariant, PTL

\* As long as no awaitable has been misused, nobody waits for what is there:
\* parked receivers only face an empty channel, parked senders a full one, and
\* a closed channel has nobody parked.
THEOREM NobodyWaitsInVain == Spec => []NoIdlePair
<1>1. IInv => NoIdlePair
  BY DEF IInv
<1> QED
  BY <1>1, Invariant, PTL

\* As long as no awaitable has been misused, a suspended caller is in the list
\* that resumes it, or has sent on a closed buffered channel.
THEOREM SuspendedAreListed == Spec => []WaitersListed
<1>1. IInv => WaitersListed
  BY DEF IInv
<1> QED
  BY <1>1, Invariant, PTL

\* As long as no awaitable has been misused, what an operation answers is true:
\* of a send, that its value is in the buffer or received, or that it never will
\* be; of a receive, that it brings a value; and "closed" only on a closed channel
\* that is empty.
THEOREM ResultsAreTrue == Spec => []ResultIsTruth
<1>1. IInv => ResultIsTruth
  <2> SUFFICES ASSUME IInv, ~broken PROVE ResultIsTruth
    BY DEF ResultIsTruth
  <2>1. ToSet(received \o buf) = Accepted
    BY ConcatFacts DEF IInv, Typed, TypeOK, Accepted
  <2>2. \A p \in Callers : Answered(p)
    BY DEF IInv, Truthful
  <2> QED
    BY <2>1, <2>2 DEF ResultIsTruth, Answered, Finished, SendOps, RecvOps
<1> QED
  BY <1>1, Invariant, PTL

\* Every implementation is the channel of the contract: one line of values, each
\* received at most once and in order, none accepted once it is closed, and only
\* the end of the line withdrawn by closing.
THEOREM ChannelsAreFifo == Spec => ImplementsFifo
<1>1. ChanInit => Contract!Init
  <2> SUFFICES ASSUME ChanInit PROVE Contract!Init
    OBVIOUS
  <2>1. /\ closed_flag = FALSE /\ received = <<>> /\ broken = FALSE
        /\ buf = <<>> /\ parked_send = <<>>
    BY DEF ChanInit, Init
  <2>2. Line = <<>>
    BY <2>1, ConcatEmptySeq DEF Line, Offers
  <2> QED
    BY <2>1, <2>2 DEF Contract!Init
<1>2. IInv /\ [ChanNext]_ChanVars => [Contract!Next]_(Contract!vars)
  BY Inductive DEF Proceeds, Moves
<1> QED
  BY <1>1, <1>2, Invariant, PTL DEF Spec, ImplementsFifo, Contract!Spec

-----------------------------------------------------------------------------
(* What follows for those who use a channel.                               *)

\* Everything that was received or is in line, in its order.
Stream == received \o Line

\* The stream only ever gets longer, but for what closing withdraws from its end.
Ordered ==
  ~broken' =>
    \/ IsPrefix(Stream, Stream')
    \/ ~closed_flag /\ closed_flag' /\ IsPrefix(Stream', Stream)
NobodyOvertakes == [][Ordered]_ChanVars

\* No value is in it twice.
Unrepeated ==
  ~broken =>
    /\ IsInjective(received) /\ IsInjective(Line)
    /\ ToSet(received) \cap ToSet(Line) = {}

\* A channel breaks where a sender was left in the list of an unbuffered one, or
\* a receiver waits at a buffered one.
BreaksAt == broken => kind = "unbuffered" \/ (kind = "buffered" /\ parked_recv # <<>>)

\* What the contract makes of the stream.
LEMMA StreamStep ==
  ASSUME IInv, IInv', Unrepeated, Moves
  PROVE  Ordered /\ Unrepeated'
<1> SUFFICES ASSUME ~broken, ~broken' PROVE Ordered /\ Unrepeated'
  <2>1. broken => broken'
    BY DEF Moves, Contract!Next, Contract!vars
  <2> QED
    BY <2>1 DEF Ordered, Unrepeated
<1>1. /\ Line \in Seq(Values) /\ Line' \in Seq(Values)
      /\ received \in Seq(Values) /\ received' \in Seq(Values)
  <2>1. Typed /\ Truthful /\ InLine /\ (Typed /\ Truthful /\ InLine)'
    BY DEF IInv
  <2>2. Line \in Seq(Values)
    BY <2>1, LineFacts
  <2>3. Line' \in Seq(Values)
    <3>1. parked_send' # <<>> => Tail(parked_send') \in Seq(Values)
      BY <2>1, QueueFacts DEF Typed, TypeOK
    <3>2. Offers' \in Seq(Values)
      BY <2>1, <3>1 DEF Offers, Typed, TypeOK
    <3> QED
      BY <2>1, <3>2, ConcatProperties DEF Line, Typed, TypeOK
  <2> QED
    BY <2>1, <2>2, <2>3 DEF Typed, TypeOK
<1>2. /\ IsInjective(received) /\ IsInjective(Line)
      /\ ToSet(received) \cap ToSet(Line) = {}
  BY DEF Unrepeated
<1>3. CASE Contract!Arrive
  <2>1. /\ Len(Line') = Len(Line) + 1 /\ IsPrefix(Line, Line') /\ received' = received
        /\ Last(Line') \notin ToSet(Line) \cup ToSet(received)
    BY <1>3 DEF Contract!Arrive, Contract!IsPrefix, IsPrefix, Contract!Last, Last, Contract!ToSet, ToSet
  <2>2. PICK v \in Values : v = Last(Line') /\ Line' = Append(Line, v)
    BY <1>1, <2>1, ExtendedFacts
  <2>3. IsPrefix(Stream, Stream')
    BY <1>1, <2>1, JoinedFacts DEF Stream
  <2>4. IsInjective(Line') /\ ToSet(Line') = ToSet(Line) \cup {v}
    BY <1>1, <1>2, <2>1, <2>2, DistinctFacts, ElementFacts
  <2> QED
    BY <1>2, <2>1, <2>2, <2>3, <2>4 DEF Ordered, Unrepeated
<1>4. CASE Contract!Leave
  <2>1. Line # <<>> /\ received' = Append(received, Head(Line)) /\ Line' = Tail(Line)
    BY <1>4 DEF Contract!Leave
  <2>2. Head(Line) \in Values /\ Stream' = Stream
    BY <1>1, <2>1, QueueFacts, JoinedFacts DEF Stream
  <2>3. Stream \in Seq(Values)
    BY <1>1, ConcatProperties DEF Stream
  <2>4. IsPrefix(Stream, Stream')
    BY <2>2, <2>3, JoinedFacts
  <2>5. /\ IsInjective(Line') /\ Head(Line) \notin ToSet(Line')
        /\ ToSet(Line) = ToSet(Line') \cup {Head(Line)}
    BY <1>1, <1>2, <2>1, DistinctFacts, ElementFacts
  <2>6. IsInjective(received') /\ ToSet(received') = ToSet(received) \cup {Head(Line)}
    BY <1>1, <1>2, <2>1, <2>2, <2>5, DistinctFacts, ElementFacts
  <2> QED
    BY <1>2, <2>4, <2>5, <2>6 DEF Ordered, Unrepeated
<1>5. CASE Contract!Pass
  <2>1. /\ Line = <<>> /\ Line' = <<>>
        /\ Len(received') = Len(received) + 1 /\ IsPrefix(received, received')
        /\ Last(received') \notin ToSet(received)
    BY <1>5 DEF Contract!Pass, Contract!IsPrefix, IsPrefix, Contract!Last, Last, Contract!ToSet, ToSet
  <2>2. Last(received') \in Values /\ received' = Append(received, Last(received'))
    BY <1>1, <2>1, ExtendedFacts
  <2>3. Stream = received /\ Stream' = received'
    BY <1>1, <2>1, ConcatEmptySeq DEF Stream
  <2>4. IsInjective(received')
    BY <1>1, <1>2, <2>1, <2>2, DistinctFacts
  <2>5. IsInjective(Line') /\ ToSet(Line') = {}
    BY <1>2, <2>1 DEF ToSet
  <2> QED
    BY <2>1, <2>3, <2>4, <2>5 DEF Ordered, Unrepeated
<1>6. CASE Contract!Shut
  <2>1. ~closed_flag /\ closed_flag' /\ received' = received /\ IsPrefix(Line', Line)
    BY <1>6 DEF Contract!Shut, Contract!IsPrefix, IsPrefix
  <2>2. IsPrefix(Stream', Stream)
    BY <1>1, <2>1, JoinedFacts DEF Stream
  <2>3. /\ Len(Line') <= Len(Line) /\ Len(Line') \in Nat /\ Len(Line) \in Nat
        /\ DOMAIN Line' = 1 .. Len(Line') /\ DOMAIN Line = 1 .. Len(Line)
        /\ \A i \in 1 .. Len(Line') : Line'[i] = Line[i]
    BY <1>1, <2>1, StartFacts, LenProperties
  <2>4. \A i \in DOMAIN Line' : i \in DOMAIN Line /\ Line'[i] = Line[i]
    BY <2>3
  <2>5. IsInjective(Line') /\ ToSet(Line') \subseteq ToSet(Line)
    BY <1>2, <2>4 DEF IsInjective, ToSet
  <2> QED
    BY <1>2, <2>1, <2>2, <2>5 DEF Ordered, Unrepeated
<1>7. CASE UNCHANGED Contract!vars
  <2>1. UNCHANGED <<received, Line>>
    BY <1>7 DEF Contract!vars
  <2>2. Stream' = Stream /\ Stream \in Seq(Values)
    BY <1>1, <2>1, ConcatProperties DEF Stream
  <2>3. IsPrefix(Stream, Stream')
    BY <2>2, JoinedFacts
  <2> QED
    BY <1>2, <2>1, <2>3 DEF Ordered, Unrepeated
<1>8. CASE Contract!Break
  BY <1>8 DEF Contract!Break
<1> QED
  BY <1>3, <1>4, <1>5, <1>6, <1>7, <1>8 DEF Moves, Contract!Next

\* Where a step breaks the channel.
LEMMA BreakStep ==
  ASSUME IInv, [ChanNext]_ChanVars, BreaksAt
  PROVE  BreaksAt' /\ (broken' /\ kind # "unbuffered" => received' = received)
<1>1. CASE UNCHANGED ChanVars
  BY <1>1 DEF ChanVars, vars, BreaksAt
<1>2. CASE ChanNext /\ kind = "unbuffered"
  BY <1>2 DEF ChanNext, BreaksAt
<1>3. CASE ~broken /\ kind = "unlimited" /\ L!Next /\ kind' = kind
  <2>1. PICK a \in Callers :
          L!Send(a) \/ L!Recv(a) \/ L!TrySend(a) \/ L!TryRecv(a) \/ L!Close(a) \/ L!Return(a)
    BY <1>3 DEF L!Next
  <2>2. CASE L!Close(a)
    <3>1. parked_send = <<>>
      BY <1>3 DEF IInv, Shape
    <3>2. broken' = FALSE
      BY <2>2, <3>1 DEF L!Close, L!ToSet
    <3> QED
      BY <3>2 DEF BreaksAt
  <2>3. CASE ~L!Close(a)
    <3>1. broken' = broken
      BY <2>1, <2>3 DEF L!Send, L!Recv, L!TrySend, L!TryRecv, L!Return, L!SendAs, L!Answer, L!ParkReceiver
    <3> QED
      BY <1>3, <3>1 DEF BreaksAt
  <2> QED
    BY <2>2, <2>3
<1>4. CASE ~broken /\ kind = "buffered" /\ B!Next /\ kind' = kind
  <2>1. PICK a \in Callers :
          B!Send(a) \/ B!Recv(a) \/ B!TrySend(a) \/ B!TryRecv(a) \/ B!Close(a) \/ B!Return(a)
    BY <1>4 DEF B!Next
  <2>2. CASE B!Close(a)
    <3>1. \A v \in ToSet(parked_send) : Alive(v)
      <4>1. \A v \in ToSet(parked_send) : Waiting(v)
        BY <1>4 DEF IInv, NoStaleSender
      <4>2. ASSUME NEW p \in Callers, NEW v, call[p] = Blocked("send", v)
            PROVE  call[p].op = "send" /\ call[p].val = v
        BY <4>2 DEF Blocked
      <4> QED
        BY <4>1, <4>2 DEF Waiting, Alive
    <3>2. broken' = FALSE
      BY <2>2, <3>1 DEF B!Close, B!ToSet, ToSet, B!Alive, Alive
    <3> QED
      BY <3>2 DEF BreaksAt
  <2>3. CASE B!TrySend(a)
    <3>1. broken' => parked_recv' # <<>>
      BY <1>4, <2>3 DEF B!TrySend, B!Answer
    <3>2. received' = received
      BY <2>3 DEF B!TrySend, B!Answer
    <3> QED
      BY <1>4, <3>1, <3>2 DEF BreaksAt
  <2>4. CASE B!Send(a) \/ B!Recv(a) \/ B!TryRecv(a) \/ B!Return(a)
    <3>1. broken' = broken
      BY <2>4 DEF B!Send, B!Recv, B!TryRecv, B!Return, B!StrandSender, B!Answer, B!ParkSender, B!ParkReceiver
    <3> QED
      BY <1>4, <3>1 DEF BreaksAt
  <2> QED
    BY <2>1, <2>2, <2>3, <2>4
<1> QED
  BY <1>1, <1>2, <1>3, <1>4 DEF ChanNext

\* All of it holds of every use of a channel.
LEMMA StreamInvariant ==
  Spec => [](IInv /\ Unrepeated /\ BreaksAt /\ (AtMostOnce \/ (broken /\ kind = "unbuffered"))) /\ NobodyOvertakes
<1> DEFINE Once == AtMostOnce \/ (broken /\ kind = "unbuffered")
           Inv == IInv /\ Unrepeated /\ BreaksAt /\ Once
<1>1. ChanInit => Inv
  <2> SUFFICES ASSUME ChanInit PROVE Inv
    OBVIOUS
  <2>1. received = <<>> /\ buf = <<>> /\ parked_send = <<>> /\ broken = FALSE
    BY DEF ChanInit, Init
  <2>2. Line = <<>> /\ IsInjective(<<>>) /\ ToSet(<<>>) = {}
    BY <2>1, ConcatEmptySeq DEF Line, Offers, IsInjective, ToSet
  <2> QED
    BY <2>1, <2>2, Initial DEF Unrepeated, BreaksAt, AtMostOnce
<1>2. Inv /\ [ChanNext]_ChanVars => Inv' /\ Ordered
  <2> SUFFICES ASSUME Inv, [ChanNext]_ChanVars PROVE Inv' /\ Ordered
    OBVIOUS
  <2>1. IInv' /\ Moves
    BY Inductive DEF Proceeds
  <2>2. Ordered /\ Unrepeated'
    BY <2>1, StreamStep
  <2>3. BreaksAt' /\ (broken' /\ kind # "unbuffered" => received' = received)
    BY BreakStep
  <2>4. kind' = kind /\ (broken => broken' /\ received' = received)
    BY DEF ChanNext, ChanVars, vars
  <2>5. Once'
    <3>1. CASE ~broken'
      BY <2>2, <3>1 DEF Unrepeated, AtMostOnce
    <3>2. CASE broken' /\ kind # "unbuffered"
      BY <2>3, <3>2 DEF AtMostOnce
    <3>3. CASE broken' /\ kind = "unbuffered"
      BY <2>4, <3>3
    <3> QED
      BY <3>1, <3>2, <3>3
  <2> QED
    BY <2>1, <2>2, <2>3, <2>5
<1> HIDE DEF Inv
<1>3. Inv => IInv /\ Unrepeated /\ BreaksAt /\ (AtMostOnce \/ (broken /\ kind = "unbuffered"))
  BY DEF Inv
<1> QED
  BY <1>1, <1>2, <1>3, PTL DEF Spec, NobodyOvertakes

\* Nobody overtakes: the values received, followed by those in line, only ever get
\* longer at their end, whoever sends and receives how, until closing withdraws
\* what parked senders still offer.
THEOREM ValuesKeepTheirOrder == Spec => NobodyOvertakes
BY StreamInvariant, PTL

\* A value is received at most once by all implementations, but for an unbuffered
\* one on which a sender was resumed twice.
THEOREM DeliveredOnce == Spec => [](AtMostOnce \/ (broken /\ kind = "unbuffered"))
BY StreamInvariant, PTL

\* An unlimited channel never misuses an awaitable; a buffered one does only where
\* a receiver is parked, which is what try_send() hands a buffer to.
THEOREM MisuseIsConfined == Spec => []BreaksAt
BY StreamInvariant, PTL

\* Closing releases everybody, but for those who send on a closed buffered channel.
\* On an unlimited channel nothing is excepted.
THEOREM OnlySendersAreStranded ==
  Spec => [](closed_flag /\ ~broken =>
               \A p \in Callers :
                 call[p].phase = "blocked" => kind = "buffered" /\ call[p].op = "send")
<1>1. IInv => (closed_flag /\ ~broken =>
                 \A p \in Callers :
                   call[p].phase = "blocked" => kind = "buffered" /\ call[p].op = "send")
  BY DEF IInv, WaitersListed
<1> QED
  BY <1>1, Invariant, PTL
=============================================================================
