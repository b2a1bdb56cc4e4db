----------------------------- MODULE ActorProofs ----------------------------
(***************************************************************************)
(* Safety of the engine handle and its actor thread, for every Apply and   *)
(* every Snapshot. Shutdown is the last command the channel ever carries,  *)
(* so the batch in which the thread takes it empties the channel.          *)
(*                                                                         *)
(* Then the refinement, for the engine state of MCActor.                   *)
(***************************************************************************)
EXTENDS MCActor, SequenceTheorems, TLAPS

TypeInv ==
    /\ channel \in Seq(Commands \cup {Shutdown})
    /\ handle \in {"open", "dropping", "dropped"}
    /\ pc \in {"recv", "drain", "publish", "exited"}
    /\ stop \in BOOLEAN

\* Where Shutdown is: not sent yet, last in the channel, or taken.
ShutdownIsLast ==
    /\ \A i \in DOMAIN channel : channel[i] = Shutdown => i = Len(channel) /\ handle # "open"
    /\ handle # "open" /\ ~stop => channel # << >> /\ channel[Len(channel)] = Shutdown
    /\ stop => channel = << >> /\ handle # "open"

Published ==
    /\ pc = "recv" => ~stop /\ (state = InitialState \/ snapshot = Snapshot(state))
    /\ pc = "exited" => stop /\ snapshot = Snapshot(state)

ActorInv == TypeInv /\ ShutdownIsLast /\ Published

\* Taking the oldest command keeps Shutdown last.
LEMMA TakeKeepsShutdownLast ==
    ASSUME TypeInv, ShutdownIsLast, Take
    PROVE  /\ channel' \in Seq(Commands \cup {Shutdown})
           /\ stop' \in BOOLEAN
           /\ handle' = handle
           /\ ShutdownIsLast'
<1>1. /\ channel # << >> /\ channel' = Tail(channel)
      /\ handle' = handle /\ ~stop
  BY DEF Take, handleVars, ShutdownIsLast
<1>2. /\ Len(channel) \in Nat \ {0}
      /\ channel' \in Seq(Commands \cup {Shutdown})
      /\ Len(channel') = Len(channel) - 1
      /\ DOMAIN channel = 1..Len(channel)
      /\ DOMAIN channel' = 1..(Len(channel) - 1)
      /\ \A i \in 1..(Len(channel) - 1) : channel'[i] = channel[i + 1]
      /\ Head(channel) = channel[1]
  BY <1>1 DEF TypeInv
<1>3. \A i \in DOMAIN channel' : channel'[i] = Shutdown => i = Len(channel') /\ handle' # "open"
  BY <1>1, <1>2 DEF ShutdownIsLast
<1>4. CASE Head(channel) = Shutdown
  <2>1. stop' = TRUE /\ handle # "open" /\ Len(channel) = 1
    BY <1>2, <1>4 DEF Take, ShutdownIsLast
  <2>2. channel' = << >>
    BY <1>1, <1>2, <2>1
  <2> QED
    BY <1>1, <1>2, <1>3, <2>1, <2>2 DEF ShutdownIsLast
<1>5. CASE Head(channel) # Shutdown
  <2>1. stop' = stop
    BY <1>5 DEF Take
  <2>2. ASSUME handle # "open"
        PROVE  channel' # << >> /\ channel'[Len(channel')] = Shutdown
    <3>1. channel[Len(channel)] = Shutdown
      BY <1>1, <2>2 DEF ShutdownIsLast
    <3>2. Len(channel) # 1
      BY <1>2, <1>5, <3>1
    <3> QED
      BY <1>2, <3>1, <3>2
  <2> QED
    BY <1>1, <1>2, <1>3, <2>1, <2>2 DEF ShutdownIsLast, TypeInv
<1> QED
  BY <1>4, <1>5

LEMMA InitActorInv == Init => ActorInv
<1> SUFFICES ASSUME Init PROVE ActorInv
  OBVIOUS
<1>1. << >> \in Seq(Commands \cup {Shutdown})
  OBVIOUS
<1>2. TypeInv
  BY <1>1, Zenon DEF Init, TypeInv
<1>3. Published
  BY Zenon DEF Init, Published
<1>4. channel = << >> /\ handle = "open" /\ stop = FALSE
  BY DEF Init
<1>5. DOMAIN channel = {}
  BY <1>4
<1>6. ShutdownIsLast
  BY <1>4, <1>5, Zenon DEF ShutdownIsLast
<1> QED
  BY <1>2, <1>3, <1>6 DEF ActorInv

\* Initially nothing was sent, and every step of the handle and of the thread
\* keeps Shutdown last and what is published up to date.
THEOREM ActorInvariant == Spec => []ActorInv
<1>1. Init => ActorInv
  BY InitActorInv
<1>2. ActorInv /\ [Next]_vars => ActorInv'
  <2> SUFFICES ASSUME ActorInv, [Next]_vars PROVE ActorInv'
    OBVIOUS
  <2> USE DEF ActorInv
  <2>1. ASSUME NEW cmd \in Commands, Send(cmd) PROVE ActorInv'
    <3>1. /\ handle = "open" /\ channel' = Append(channel, cmd)
          /\ UNCHANGED <<handle, pc, stop, state, snapshot>>
      BY <2>1 DEF Send, actorVars
    <3>2. TypeInv' /\ Published'
      BY <3>1 DEF TypeInv, Published
    <3>3. ShutdownIsLast'
      BY <3>1, ShutdownAssumption DEF TypeInv, ShutdownIsLast
    <3> QED
      BY <3>2, <3>3
  <2>2. CASE Drop
    <3>1. /\ handle = "open" /\ handle' = "dropping"
          /\ channel' = Append(channel, Shutdown)
          /\ UNCHANGED <<pc, stop, state, snapshot>>
      BY <2>2 DEF Drop, actorVars
    <3>2. TypeInv' /\ Published'
      BY <3>1 DEF TypeInv, Published
    <3>3. ShutdownIsLast'
      BY <3>1 DEF TypeInv, ShutdownIsLast
    <3> QED
      BY <3>2, <3>3
  <2>3. CASE Join
    BY <2>3 DEF Join, actorVars, TypeInv, ShutdownIsLast, Published
  <2>4. CASE Recv
    BY <2>4, TakeKeepsShutdownLast DEF Recv, TypeInv, Published
  <2>5. CASE Drain
    BY <2>5, TakeKeepsShutdownLast DEF Drain, TypeInv, Published
  <2>6. CASE Drained
    BY <2>6 DEF Drained, handleVars, TypeInv, ShutdownIsLast, Published
  <2>7. CASE Publish
    BY <2>7 DEF Publish, handleVars, TypeInv, ShutdownIsLast, Published
  <2>8. CASE UNCHANGED vars
    BY <2>8 DEF vars, TypeInv, ShutdownIsLast, Published
  <2> QED
    BY <2>1, <2>2, <2>3, <2>4, <2>5, <2>6, <2>7, <2>8 DEF Next, ActorStep, Done
<1> QED
  BY <1>1, <1>2, PTL DEF Spec

\* The history adds nothing to what the handle and the thread do: what is
\* proved of Spec is true of BatchSpec, which is what is checked.
LEMMA BatchesAreSteps == BatchSpec => Spec
<1>1. BatchInit => Init
  BY DEF BatchInit
<1>2. [BatchNext]_<<vars, settled>> => [Next]_vars
  BY DEF BatchNext
<1>. QED
  BY <1>1, <1>2, PTL DEF BatchSpec, Spec

\* Between two batches the state is the one the last of them left.
SettledInv ==
    /\ pc \in {"recv", "exited"} => state = settled
    /\ PublishedBetweenBatches

\* A reader holds, whatever the thread is doing, the document as the last
\* whole batch left it: no snapshot is stored in the middle of a batch, and
\* none is left out at the end of one.
THEOREM NoPartialBatch == BatchSpec => []PublishedBetweenBatches
<1>1. BatchInit => SettledInv
  BY DEF BatchInit, Init, SettledInv, PublishedBetweenBatches
<1>2. SettledInv /\ [BatchNext]_<<vars, settled>> => SettledInv'
  <2> SUFFICES ASSUME SettledInv, [BatchNext]_<<vars, settled>>
               PROVE  SettledInv'
    OBVIOUS
  <2>1. ASSUME BatchNext, UNCHANGED <<pc, state, snapshot>>
        PROVE  SettledInv'
    BY <2>1 DEF BatchNext, SettledInv, PublishedBetweenBatches
  <2>2. ASSUME BatchNext, Recv \/ Drain \/ Drained
        PROVE  SettledInv'
    <3>1. pc' \in {"drain", "publish"} /\ snapshot' = snapshot
      BY <2>2 DEF Recv, Drain, Drained, Take
    <3>2. settled' = settled
      BY <2>2, <3>1 DEF BatchNext
    <3>. QED
      BY <3>1, <3>2 DEF SettledInv, PublishedBetweenBatches
  <2>3. ASSUME BatchNext, Publish
        PROVE  SettledInv'
    <3>1. pc' \in {"recv", "exited"} /\ snapshot' = Snapshot(state) /\ state' = state
      BY <2>3 DEF Publish
    <3>2. settled' = state
      BY <2>3, <3>1 DEF BatchNext
    <3>. QED
      BY <3>1, <3>2 DEF SettledInv, PublishedBetweenBatches
  <2>4. CASE UNCHANGED <<vars, settled>>
    BY <2>4 DEF vars, SettledInv, PublishedBetweenBatches
  <2>5. CASE BatchNext
    <3>1. \/ UNCHANGED <<pc, state, snapshot>>
          \/ Recv \/ Drain \/ Drained \/ Publish
      BY <2>5 DEF BatchNext, Next, Send, Drop, Join, Done, ActorStep, actorVars, vars
    <3>. QED
      BY <2>1, <2>2, <2>3, <2>5, <3>1
  <2>. QED
    BY <2>4, <2>5
<1>3. SettledInv => PublishedBetweenBatches
  BY DEF SettledInv
<1>. QED
  BY <1>1, <1>2, <1>3, PTL DEF BatchSpec

\* The thread exits only when the channel is empty and everything published.
THEOREM ExitsClean == Spec => []NothingLeftBehind
<1>1. ActorInv => NothingLeftBehind
  BY DEF ActorInv, Published, ShutdownIsLast, NothingLeftBehind
<1> QED
  BY <1>1, ActorInvariant, PTL

(***************************************************************************)
(* The handle and its thread implement the safety part of CommandLog: the  *)
(* engine state is the list of the commands applied, of which whatever     *)
(* Apply computes is a function. What a reader sees is a prefix of it, and *)
(* the batch in which the thread stops leaves nothing to show.             *)
(***************************************************************************)
\* The engine state of MCActor.
StateIsLog ==
    /\ InitialState = MCInitialState
    /\ DefaultSnapshot \notin Seq(Commands)
    /\ \A s \in Seq(Commands) : Snapshot(s) = s
    /\ \A s \in Seq(Commands), cmd \in Commands : Apply(cmd, s) = Append(s, cmd)

\* Every snapshot a reader can hold is the state after some of the commands,
\* and later states extend it.
SeenIsPrefix ==
    /\ state \in Seq(Commands)
    /\ Seen \in Seq(Commands)
    /\ \E n \in 0..Len(state) : Seen = SubSeq(state, 1, n)

LogInv ==
    /\ ActorInv
    /\ SeenIsPrefix
    /\ pc = "exited" => Seen = state
    /\ handle = "dropped" => pc = "exited"

LEMMA PrefixOfAppend ==
    ASSUME NEW s \in Seq(Commands), NEW t \in Seq(Commands), NEW n \in 0..Len(s)
    PROVE  /\ n \in 0..Len(s \o t)
           /\ SubSeq(s \o t, 1, n) = SubSeq(s, 1, n)
OBVIOUS

LEMMA AppendMoves ==
    ASSUME NEW S, NEW s \in Seq(S), NEW t \in Seq(S), NEW x \in S
    PROVE  /\ s \o Append(t, x) = Append(s \o t, x)
           /\ t # << >> => Append(s, Head(t)) \o Tail(t) = s \o t
           /\ s \o << >> = s
<1>1. s \o Append(t, x) = Append(s \o t, x)
  BY SeqEqual, s \o Append(t, x) \in Seq(S), Append(s \o t, x) \in Seq(S)
<1>2. ASSUME t # << >> PROVE Append(s, Head(t)) \o Tail(t) = s \o t
  <2>1. Head(t) \in S /\ Tail(t) \in Seq(S) /\ Len(t) \in Nat \ {0}
    BY <1>2
  <2>2. Append(s, Head(t)) = s \o <<Head(t)>>
    BY <2>1
  <2>3. (s \o <<Head(t)>>) \o Tail(t) = s \o (<<Head(t)>> \o Tail(t))
    BY <2>1, ConcatAssociative
  <2>4. <<Head(t)>> \o Tail(t) = t
    <3>1. <<Head(t)>> \o Tail(t) \in Seq(S) /\ Len(<<Head(t)>> \o Tail(t)) = Len(t)
      BY <2>1, <1>2
    <3>2. \A i \in 1..Len(t) : (<<Head(t)>> \o Tail(t))[i] = t[i]
      BY <2>1, <1>2
    <3>. QED
      BY <3>1, <3>2, SeqEqual
  <2>. QED
    BY <2>2, <2>3, <2>4
<1>3. s \o << >> = s
  OBVIOUS
<1>. QED
  BY <1>1, <1>2, <1>3

\* Shutdown is the last thing in a channel, if it is there at all.
OnlyLast(c) == \A i \in DOMAIN c : c[i] = Shutdown => i = Len(c)

\* What is in a channel besides Shutdown.
LEMMA CommandsInChannel ==
    ASSUME NEW c \in Seq(Commands \cup {Shutdown}), OnlyLast(c)
    PROVE  /\ CommandsIn(c) \in Seq(Commands)
           /\ c # << >> /\ c[Len(c)] = Shutdown => CommandsIn(c) = SubSeq(c, 1, Len(c) - 1)
           /\ (c # << >> => c[Len(c)] # Shutdown) => CommandsIn(c) = c
<1>1. CASE c # << >> /\ c[Len(c)] = Shutdown
  <2>1. CommandsIn(c) = SubSeq(c, 1, Len(c) - 1)
    BY <1>1 DEF CommandsIn, Last, Front
  <2>2. /\ Len(c) - 1 \in Nat
        /\ \A i \in 1..(Len(c) - 1) : c[i] \in Commands
    BY <1>1 DEF OnlyLast
  <2>. QED
    BY <1>1, <2>1, <2>2
<1>2. CASE c # << >> => c[Len(c)] # Shutdown
  <2>1. \A i \in 1..Len(c) : c[i] \in Commands
    BY <1>2 DEF OnlyLast
  <2>2. CommandsIn(c) = c
    BY <1>2 DEF CommandsIn, Last
  <2>. QED
    BY <1>2, <2>1, <2>2
<1>. QED
  BY <1>1, <1>2

\* Putting something into the channel, and taking the oldest out.
LEMMA CommandsAfterSend ==
    ASSUME NEW c \in Seq(Commands)
    PROVE  /\ CommandsIn(c) = c
           /\ \A cmd \in Commands : CommandsIn(Append(c, cmd)) = Append(c, cmd)
           /\ CommandsIn(Append(c, Shutdown)) = c
<1>1. c # << >> => c[Len(c)] # Shutdown
  BY ShutdownAssumption
<1>2. CommandsIn(c) = c
  BY <1>1 DEF CommandsIn, Last
<1>3. ASSUME NEW cmd \in Commands
      PROVE  CommandsIn(Append(c, cmd)) = Append(c, cmd)
  <2>1. Append(c, cmd)[Len(Append(c, cmd))] # Shutdown
    BY ShutdownAssumption
  <2>. QED
    BY <2>1 DEF CommandsIn, Last
<1>4. CommandsIn(Append(c, Shutdown)) = c
  BY DEF CommandsIn, Last, Front
<1>. QED
  BY <1>2, <1>3, <1>4

LEMMA CommandsAfterTake ==
    ASSUME NEW c \in Seq(Commands \cup {Shutdown}), c # << >>, OnlyLast(c)
    PROVE  /\ CommandsIn(Tail(c)) \in Seq(Commands)
           /\ Head(c) = Shutdown => CommandsIn(c) = << >> /\ CommandsIn(Tail(c)) = << >>
           /\ Head(c) # Shutdown =>
                 /\ CommandsIn(c) # << >>
                 /\ Head(c) = Head(CommandsIn(c))
                 /\ CommandsIn(Tail(c)) = Tail(CommandsIn(c))
<1>1. /\ Tail(c) \in Seq(Commands \cup {Shutdown})
      /\ Len(Tail(c)) = Len(c) - 1
      /\ Len(c) \in Nat \ {0}
      /\ DOMAIN c = 1..Len(c) /\ DOMAIN Tail(c) = 1..(Len(c) - 1)
      /\ \A i \in 1..(Len(c) - 1) : Tail(c)[i] = c[i + 1]
      /\ Head(c) = c[1]
  OBVIOUS
<1>2. OnlyLast(Tail(c))
  BY <1>1 DEF OnlyLast
<1>3. CommandsIn(Tail(c)) \in Seq(Commands)
  BY <1>1, <1>2, CommandsInChannel
<1>4. ASSUME Head(c) = Shutdown
      PROVE  CommandsIn(c) = << >> /\ CommandsIn(Tail(c)) = << >>
  <2>1. Len(c) = 1
    BY <1>1, <1>4 DEF OnlyLast
  <2>2. CommandsIn(c) = SubSeq(c, 1, 0)
    BY <1>1, <1>4, <2>1, CommandsInChannel
  <2>3. Tail(c) = << >>
    BY <1>1, <2>1
  <2>4. SubSeq(c, 1, 0) = << >>
    OBVIOUS
  <2>5. CommandsIn(Tail(c)) = Tail(c)
    BY <2>3, Zenon DEF CommandsIn
  <2>. QED
    BY <2>2, <2>3, <2>4, <2>5
<1>5. ASSUME Head(c) # Shutdown
      PROVE  /\ CommandsIn(c) # << >>
             /\ Head(c) = Head(CommandsIn(c))
             /\ CommandsIn(Tail(c)) = Tail(CommandsIn(c))
  <2>1. CASE c[Len(c)] = Shutdown
    <3>0. Len(c) > 1
      BY <1>1, <1>5, <2>1
    <3>1. Tail(c) # << >> /\ Tail(c)[Len(Tail(c))] = Shutdown
      <4>1. Len(Tail(c)) \in 1..(Len(c) - 1) /\ Len(Tail(c)) + 1 = Len(c)
        BY <1>1, <3>0
      <4>2. Tail(c)[Len(Tail(c))] = c[Len(Tail(c)) + 1]
        BY <1>1, <4>1
      <4>3. Tail(c) # << >>
        <5>1. Len(Tail(c)) # 0
          BY <1>1, <3>0, <4>1
        <5>. QED
          BY <5>1
      <4>. QED
        BY <2>1, <4>1, <4>2, <4>3
    <3>2. CommandsIn(c) = SubSeq(c, 1, Len(c) - 1)
      BY <2>1, CommandsInChannel
    <3>3. CommandsIn(Tail(c)) = SubSeq(Tail(c), 1, Len(Tail(c)) - 1)
      BY <1>1, <1>2, <3>1, CommandsInChannel
    <3>4. SubSeq(Tail(c), 1, Len(Tail(c)) - 1) = Tail(SubSeq(c, 1, Len(c) - 1))
      BY <1>1, <3>0
    <3>5. SubSeq(c, 1, Len(c) - 1) # << >> /\ Head(SubSeq(c, 1, Len(c) - 1)) = c[1]
      <4>. DEFINE d == SubSeq(c, 1, Len(c) - 1)
      <4>1. d \in Seq(Commands \cup {Shutdown}) /\ Len(d) = Len(c) - 1 /\ d[1] = c[1]
        BY <1>1, <3>0
      <4>. HIDE DEF d
      <4>2. d # << >> /\ Head(d) = c[1]
        BY <1>1, <3>0, <4>1
      <4>. QED
        BY <4>2 DEF d
    <3>. QED
      BY <1>1, <3>2, <3>3, <3>4, <3>5
  <2>2. CASE c[Len(c)] # Shutdown
    <3>1. CommandsIn(c) = c
      BY <2>2, CommandsInChannel
    <3>2. Tail(c) # << >> => Tail(c)[Len(Tail(c))] # Shutdown
      BY <1>1, <2>2
    <3>3. CommandsIn(Tail(c)) = Tail(c)
      BY <1>1, <1>2, <3>2, CommandsInChannel
    <3>. QED
      BY <3>1, <3>3
  <2>. QED
    BY <2>1, <2>2
<1>. QED
  BY <1>3, <1>4, <1>5

\* Taking a command moves it from the channel to the engine state.
LEMMA TakeMoves ==
    ASSUME StateIsLog, LogInv, Take
    PROVE  /\ state' \in Seq(Commands)
           /\ state' \o CommandsIn(channel') = state \o CommandsIn(channel)
           /\ \E t \in Seq(Commands) : state' = state \o t
           /\ handle' = handle /\ snapshot' = snapshot
<1>. USE DEF LogInv, ActorInv
<1>1. /\ channel # << >> /\ channel' = Tail(channel)
      /\ handle' = handle /\ snapshot' = snapshot
      /\ state \in Seq(Commands)
      /\ channel \in Seq(Commands \cup {Shutdown})
  BY DEF Take, handleVars, SeenIsPrefix, TypeInv
<1>2. OnlyLast(channel)
  BY DEF ShutdownIsLast, OnlyLast
<1>3. CommandsIn(channel) \in Seq(Commands)
  BY <1>1, <1>2, CommandsInChannel
<1>4. CASE Head(channel) = Shutdown
  <2>1. state' = state
    BY <1>4 DEF Take
  <2>2. CommandsIn(channel') = CommandsIn(channel)
    BY <1>1, <1>2, <1>4, CommandsAfterTake
  <2>3. state = state \o << >> /\ << >> \in Seq(Commands)
    BY <1>1
  <2>4. \E t \in Seq(Commands) : state' = state \o t
    BY <2>1, <2>3, Zenon
  <2>. QED
    BY <1>1, <2>1, <2>2, <2>4
<1>5. CASE Head(channel) # Shutdown
  <2>1. /\ Head(channel) = Head(CommandsIn(channel))
        /\ CommandsIn(channel) # << >>
        /\ CommandsIn(channel') = Tail(CommandsIn(channel))
    BY <1>1, <1>2, <1>5, CommandsAfterTake
  <2>2. Head(channel) \in Commands
    BY <1>3, <2>1
  <2>3. state' = Append(state, Head(channel))
    BY <1>1, <1>5, <2>2 DEF Take, StateIsLog
  <2>4. state' \in Seq(Commands) /\ state' = state \o <<Head(channel)>>
    BY <1>1, <2>2, <2>3
  <2>5. state' \o CommandsIn(channel') = state \o CommandsIn(channel)
    <3>1. Append(state, Head(CommandsIn(channel))) \o Tail(CommandsIn(channel))
              = state \o CommandsIn(channel)
      BY <1>1, <1>3, <2>1, <2>2, AppendMoves
    <3>. QED
      BY <2>1, <2>3, <3>1
  <2>6. <<Head(channel)>> \in Seq(Commands)
    BY <2>2
  <2>. QED
    BY <1>1, <2>4, <2>5, <2>6
<1>. QED
  BY <1>4, <1>5

LEMMA TakeKeepsLog ==
    ASSUME StateIsLog, LogInv, Take, pc' = "drain", pc # "exited"
    PROVE  /\ SeenIsPrefix' /\ handle' # "dropped"
           /\ UNCHANGED <<state \o CommandsIn(channel), Seen, handle = "dropped">>
<1>1. PICK t \in Seq(Commands) : state' = state \o t
  BY TakeMoves
<1>2. PICK n \in 0..Len(state) : Seen = SubSeq(state, 1, n)
  BY DEF LogInv, SeenIsPrefix
<1>3. /\ state \in Seq(Commands) /\ state' \in Seq(Commands)
      /\ Seen' = Seen /\ Seen \in Seq(Commands)
  BY TakeMoves DEF Seen, LogInv, SeenIsPrefix
<1>4. n \in 0..Len(state') /\ Seen' = SubSeq(state', 1, n)
  BY <1>1, <1>2, <1>3, PrefixOfAppend
<1>5. SeenIsPrefix'
  BY <1>3, <1>4 DEF SeenIsPrefix
<1>6. handle' = handle /\ handle # "dropped"
  BY TakeMoves DEF LogInv
<1>. QED
  BY <1>3, <1>5, <1>6, TakeMoves

\* Every step keeps the invariant and is a step of the log, or shows nothing.
LEMMA LogStep ==
    ASSUME StateIsLog, LogInv, ActorInv', [Next]_vars
    PROVE  LogInv' /\ [Log!Next]_<<state \o CommandsIn(channel), Seen, handle = "dropped">>
<1>. DEFINE Shown == <<state \o CommandsIn(channel), Seen, handle = "dropped">>
<1>0. /\ TypeInv /\ OnlyLast(channel) /\ SeenIsPrefix
      /\ channel \in Seq(Commands \cup {Shutdown})
      /\ state \in Seq(Commands) /\ Seen \in Seq(Commands)
      /\ CommandsIn(channel) \in Seq(Commands)
  BY CommandsInChannel DEF LogInv, ActorInv, TypeInv, ShutdownIsLast, OnlyLast, SeenIsPrefix
<1>1. ASSUME NEW cmd \in Commands, Send(cmd) PROVE LogInv' /\ Log!Next
  <2>1. /\ handle = "open" /\ channel' = Append(channel, cmd)
        /\ handle' = handle /\ pc' = pc /\ state' = state /\ snapshot' = snapshot
    BY <1>1 DEF Send, actorVars
  <2>2. channel \in Seq(Commands) /\ CommandsIn(channel) = channel
    <3>1. ~\E i \in DOMAIN channel : channel[i] = Shutdown
      BY <2>1 DEF LogInv, ActorInv, ShutdownIsLast
    <3>2. CommandsIn(channel) = channel
      BY <1>0, <3>1, CommandsInChannel
    <3>. QED
      BY <1>0, <3>2
  <2>3. CommandsIn(channel') = Append(channel, cmd)
    BY <2>1, <2>2, CommandsAfterSend
  <2>4. state' \o CommandsIn(channel') = Append(state \o CommandsIn(channel), cmd)
    BY <1>0, <2>1, <2>2, <2>3, AppendMoves
  <2>5. Log!Submit
    BY <2>1, <2>4, Zenon DEF Log!Submit, Seen
  <2>6. SeenIsPrefix'
    BY <1>0, <2>1 DEF SeenIsPrefix, Seen
  <2>7. LogInv'
    BY <2>1, <2>6 DEF LogInv, Seen
  <2>. QED
    BY <2>5, <2>7 DEF Log!Next
<1>2. CASE Drop
  <2>1. /\ handle = "open" /\ handle' = "dropping" /\ channel' = Append(channel, Shutdown)
        /\ pc' = pc /\ state' = state /\ snapshot' = snapshot
    BY <1>2 DEF Drop, actorVars
  <2>2. channel \in Seq(Commands) /\ CommandsIn(channel) = channel
    <3>1. ~\E i \in DOMAIN channel : channel[i] = Shutdown
      BY <2>1 DEF LogInv, ActorInv, ShutdownIsLast
    <3>2. CommandsIn(channel) = channel
      BY <1>0, <3>1, CommandsInChannel
    <3>. QED
      BY <1>0, <3>2
  <2>3. CommandsIn(channel') = CommandsIn(channel)
    BY <2>1, <2>2, CommandsAfterSend
  <2>4. UNCHANGED Shown
    BY <2>1, <2>3 DEF Seen
  <2>5. SeenIsPrefix'
    BY <1>0, <2>1 DEF SeenIsPrefix, Seen
  <2>6. LogInv'
    BY <2>1, <2>5 DEF LogInv, Seen
  <2>. QED
    BY <2>4, <2>6
<1>3. CASE Join
  <2>1. /\ pc = "exited" /\ handle' = "dropped" /\ channel' = channel
        /\ pc' = pc /\ state' = state /\ snapshot' = snapshot
    BY <1>3 DEF Join, actorVars
  <2>2. channel = << >> /\ Seen = state
    BY <2>1 DEF LogInv, ActorInv, Published, ShutdownIsLast
  <2>3. CommandsIn(channel) = << >>
    BY <2>2, Zenon DEF CommandsIn
  <2>4. Seen = state \o CommandsIn(channel)
    BY <1>0, <2>2, <2>3
  <2>5. Log!Close
    BY <2>1, <2>4 DEF Log!Close, Seen
  <2>6. LogInv'
    BY <1>0, <2>1, <2>2 DEF LogInv, SeenIsPrefix, Seen
  <2>. QED
    BY <2>5, <2>6 DEF Log!Next
<1>4. CASE Recv \/ Drain
  <2>1. Take /\ pc' = "drain" /\ pc # "exited"
    BY <1>4 DEF Recv, Drain
  <2>2. /\ SeenIsPrefix' /\ handle' # "dropped" /\ UNCHANGED Shown
    BY <2>1, TakeKeepsLog
  <2>. QED
    BY <2>1, <2>2 DEF LogInv
<1>5. CASE Drained
  BY <1>0, <1>5 DEF Drained, handleVars, LogInv, SeenIsPrefix, Seen
<1>6. CASE Publish
  <2>1. /\ pc = "publish" /\ snapshot' = state /\ state' = state /\ channel' = channel
        /\ handle' = handle /\ pc' \in {"exited", "recv"}
    BY <1>0, <1>6 DEF Publish, handleVars, StateIsLog
  <2>2. Seen' = state
    BY <1>0, <2>1 DEF Seen, StateIsLog
  <2>3. SubSeq(state, 1, Len(state)) = state /\ Len(state) \in 0..Len(state)
    BY <1>0
  <2>4. SeenIsPrefix'
    BY <1>0, <2>1, <2>2, <2>3 DEF SeenIsPrefix
  <2>5. LogInv'
    BY <2>1, <2>2, <2>4 DEF LogInv
  <2>6. PICK m \in 0..Len(state) : Seen = SubSeq(state, 1, m)
    BY <1>0 DEF SeenIsPrefix
  <2>7. Len(Seen) <= Len(state) /\ Len(state) <= Len(state \o CommandsIn(channel))
    BY <1>0, <2>6
  <2>8. state = SubSeq(state \o CommandsIn(channel), 1, Len(state))
    BY <1>0, <2>3, PrefixOfAppend
  <2>9. Log!Show
    <3>1. Len(state) \in Len(Seen)..Len(state \o CommandsIn(channel))
      BY <1>0, <2>7
    <3>. QED
      BY <2>1, <2>2, <2>8, <3>1 DEF Log!Show
  <2>. QED
    BY <2>5, <2>9 DEF Log!Next
<1>7. CASE UNCHANGED vars
  BY <1>7 DEF vars, LogInv, SeenIsPrefix, Seen
<1>. QED
  BY <1>1, <1>2, <1>3, <1>4, <1>5, <1>6, <1>7 DEF Next, ActorStep, Done

\* The handle and its thread are a log: commands take effect in the order they
\* were sent, none lost and none twice; each snapshot is the effect of a
\* prefix, and of no shorter one than the last; and when Engine::drop returns
\* all that was sent is published.
THEOREM HandleIsLog ==
    ASSUME StateIsLog
    PROVE  Spec => Log!Safety
<1>1. Init => LogInv /\ Log!Init
  <2> SUFFICES ASSUME Init PROVE LogInv /\ Log!Init
    OBVIOUS
  <2>1. /\ channel = << >> /\ handle = "open" /\ pc = "recv" /\ state = << >>
        /\ snapshot = DefaultSnapshot
    BY DEF Init, StateIsLog, MCInitialState
  <2>2. Seen = << >> /\ CommandsIn(channel) = << >>
    BY <2>1, Zenon DEF Seen, CommandsIn
  <2>3. << >> \in Seq(Commands) /\ SubSeq(<< >>, 1, 0) = << >> /\ << >> \o << >> = << >>
        /\ Len(<< >>) = 0
    OBVIOUS
  <2>4. SeenIsPrefix
    BY <2>1, <2>2, <2>3 DEF SeenIsPrefix
  <2>5. ActorInv
    BY InitActorInv
  <2>6. Log!Init
    BY <2>1, <2>2, <2>3 DEF Log!Init
  <2>. QED
    BY <2>1, <2>4, <2>5, <2>6 DEF LogInv
<1>2. LogInv /\ ActorInv' /\ [Next]_vars
        => LogInv' /\ [Log!Next]_<<state \o CommandsIn(channel), Seen, handle = "dropped">>
  BY LogStep
<1>. QED
  BY <1>1, <1>2, ActorInvariant, PTL DEF Spec, Log!Safety

=============================================================================
