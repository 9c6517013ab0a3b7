------------------------- MODULE DropCountersProofs -------------------------
(***************************************************************************)
(* Proofs about DropCounters, for any number of connections and frames of  *)
(* any size: no interleaving of the counters' accesses loses or doubles a  *)
(* frame, and a shutdown leaves nothing behind that was counted before it. *)
(***************************************************************************)
EXTENDS DropCounters, FiniteSetTheorems, TLAPS

FramesTaken == Taken("watcher").frames + Taken("shutdown").frames + reported.frames
BytesTaken == Taken("watcher").bytes + Taken("shutdown").bytes + reported.bytes

(* The drain has still to swap what was counted at the signal, or holds    *)
(* it, or has left it in a gap or with the watcher.                        *)
DrainInv ==
  /\ due <= counted
  /\ shutdown = "drain" =>
       /\ taker["shutdown"].at # "idle"
       /\ taker["shutdown"].at # "frames" => FramesTaken >= due
  /\ shutdown \in {"exit", "stopped"} =>
       taker["shutdown"].at = "idle" /\ FramesTaken >= due

DropInv == DropTypeOK /\ DropsConserved /\ DrainInv

Whole == (counted - Cardinality(Halfway)) * FrameBytes

-----------------------------------------------------------------------------
LEMMA HalfwayIsFinite ==
  /\ IsFiniteSet(Halfway)
  /\ Cardinality(Halfway) \in Nat
<1>1. Halfway \in SUBSET Connections
  BY DEF Halfway
<1>2. IsFiniteSet(Halfway)
  BY <1>1, FiniteConnections, FS_Subset
<1> QED  BY <1>2, FS_CardinalityType

LEMMA SumsAreNat ==
  ASSUME DropTypeOK
  PROVE  /\ \A t \in Takers : Taken(t) \in Summaries
         /\ FramesTaken \in Nat /\ BytesTaken \in Nat
<1>1. \A t \in Takers : Taken(t) \in Summaries
  BY DEF DropTypeOK, Taken
<1>2. "watcher" \in Takers /\ "shutdown" \in Takers
  BY DEF Takers
<1> QED  BY <1>1, <1>2 DEF DropTypeOK, FramesTaken, BytesTaken, Summaries

Balanced == counted = frames + FramesTaken /\ Whole = bytes + BytesTaken

LEMMA ConservedIs == DropTypeOK => (DropsConserved <=> Balanced)
<1> SUFFICES ASSUME DropTypeOK PROVE DropsConserved <=> Balanced
  OBVIOUS
<1>1. \A t \in Takers : Taken(t) \in Summaries
  BY SumsAreNat
<1>2. /\ Taken("watcher") \in Summaries /\ Taken("shutdown") \in Summaries
      /\ reported \in [frames : Nat, bytes : Nat] /\ frames \in Nat /\ bytes \in Nat
  BY <1>1 DEF Takers, DropTypeOK
<1>3. \A a, b, c, d \in Nat : a + b + c + d = a + (b + c + d)
  OBVIOUS
<1>4. frames + Taken("watcher").frames + Taken("shutdown").frames + reported.frames
        = frames + FramesTaken
  BY <1>2, <1>3 DEF FramesTaken, Summaries
<1>5. bytes + Taken("watcher").bytes + Taken("shutdown").bytes + reported.bytes
        = bytes + BytesTaken
  BY <1>2, <1>3 DEF BytesTaken, Summaries
<1> QED  BY <1>4, <1>5 DEF DropsConserved, Whole, Balanced

LEMMA ConservedIsNext == DropTypeOK' => (DropsConserved' <=> Balanced')
  BY ConservedIs, PTL

(* A step that moves nothing conserves everything.                         *)
LEMMA QuietStep ==
  ASSUME DropInv, DropTypeOK', frames' = frames, bytes' = bytes, counted' = counted,
         reported' = reported, Halfway' = Halfway,
         \A t \in Takers : taker'[t].sum = taker[t].sum
  PROVE  DropsConserved' /\ FramesTaken' = FramesTaken
  BY DEF DropInv, DropsConserved, FramesTaken, Taken, Takers

-----------------------------------------------------------------------------
USE FrameIsNotEmpty DEF Takers

LEMMA InitStep == DropInit => DropInv
<1> SUFFICES ASSUME DropInit PROVE DropInv
  OBVIOUS
<1>1. DropTypeOK
  BY DEF DropInit, DropTypeOK, Nothing, Summaries
<1>2. Halfway = {}
  BY DEF DropInit, Halfway
<1>3. Cardinality(Halfway) = 0
  BY <1>2, FS_EmptySet
<1>4. DropsConserved
  BY <1>3 DEF DropInit, DropsConserved, Taken, Nothing
<1>5. DrainInv
  BY DEF DropInit, DrainInv
<1> QED  BY <1>1, <1>4, <1>5 DEF DropInv

LEMMA PressureStep == ASSUME DropInv, Pressure PROVE DropInv'
<1>1. DropTypeOK'
  BY DEF DropInv, DropTypeOK, Pressure
<1>2. DropsConserved' /\ FramesTaken' = FramesTaken
  BY <1>1, QuietStep DEF Pressure, Halfway
<1> QED  BY <1>1, <1>2 DEF DropInv, DrainInv, Pressure

LEMMA TickStep == ASSUME DropInv, Tick PROVE DropInv'
<1>1. DropTypeOK'
  BY DEF DropInv, DropTypeOK, Tick
<1>2. DropsConserved' /\ FramesTaken' = FramesTaken
  BY <1>1, QuietStep DEF Tick, Halfway
<1> QED  BY <1>1, <1>2 DEF DropInv, DrainInv, Tick

LEMMA DropStep == ASSUME DropInv, NEW c \in Connections, Drop(c) PROVE DropInv'
<1>1. DropTypeOK'
  BY DEF DropInv, DropTypeOK, Drop
<1>2. Halfway' = Halfway
  BY DEF DropInv, DropTypeOK, Drop, Halfway
<1>3. DropsConserved' /\ FramesTaken' = FramesTaken
  BY <1>1, <1>2, QuietStep DEF Drop
<1> QED  BY <1>1, <1>3 DEF DropInv, DrainInv, Drop

LEMMA StampStep == ASSUME DropInv, NEW c \in Connections, StampWindow(c) PROVE DropInv'
<1>1. DropTypeOK'
  BY DEF DropInv, DropTypeOK, StampWindow
<1>2. Halfway' = Halfway
  BY DEF DropInv, DropTypeOK, StampWindow, Halfway
<1>3. DropsConserved' /\ FramesTaken' = FramesTaken
  BY <1>1, <1>2, QuietStep DEF StampWindow
<1> QED  BY <1>1, <1>3 DEF DropInv, DrainInv, StampWindow

(* One more frame is counted, and its bytes are missing.                   *)
LEMMA CountFrameStep == ASSUME DropInv, NEW c \in Connections, CountFrame(c) PROVE DropInv'
<1> USE HalfwayIsFinite
<1>1. DropTypeOK'
  BY DEF DropInv, DropTypeOK, CountFrame
<1>2. Halfway' = Halfway \cup {c} /\ c \notin Halfway
  BY DEF DropInv, DropTypeOK, CountFrame, Halfway
<1>3. Cardinality(Halfway') = Cardinality(Halfway) + 1
  BY <1>2, FS_AddElement
<1>4. FramesTaken' = FramesTaken /\ BytesTaken' = BytesTaken
  BY DEF CountFrame, FramesTaken, BytesTaken, Taken
<1>5. counted' - Cardinality(Halfway') = counted - Cardinality(Halfway)
  BY <1>3 DEF CountFrame, DropInv, DropTypeOK
<1>6. Whole' = Whole
  BY <1>5 DEF Whole
<1>7. DropsConserved'
  <2>1. counted = frames + FramesTaken /\ Whole = bytes + BytesTaken
    BY ConservedIs DEF DropInv, Balanced
  <2>2. counted' = frames' + FramesTaken' /\ Whole' = bytes' + BytesTaken'
    BY <2>1, <1>4, <1>6, SumsAreNat DEF CountFrame, DropInv, DropTypeOK
  <2> QED  BY <1>1, <2>2, ConservedIsNext DEF Balanced
<1>8. DrainInv'
  BY <1>4 DEF DrainInv, DropInv, DropTypeOK, CountFrame
<1> QED  BY <1>1, <1>7, <1>8 DEF DropInv

(* The bytes of a counted frame arrive.                                    *)
LEMMA CountBytesStep == ASSUME DropInv, NEW c \in Connections, CountBytes(c) PROVE DropInv'
<1> USE HalfwayIsFinite
<1>1. DropTypeOK'
  BY DEF DropInv, DropTypeOK, CountBytes
<1>2. Halfway' = Halfway \ {c} /\ c \in Halfway
  BY DEF DropInv, DropTypeOK, CountBytes, Halfway
<1>3. Cardinality(Halfway') = Cardinality(Halfway) - 1
  BY <1>2, FS_RemoveElement
<1>4. FramesTaken' = FramesTaken /\ BytesTaken' = BytesTaken
  BY DEF CountBytes, FramesTaken, BytesTaken, Taken
<1>5. counted' - Cardinality(Halfway') = (counted - Cardinality(Halfway)) + 1
  BY <1>3 DEF CountBytes, DropInv, DropTypeOK
<1>6. \A k \in Int : \A n \in Nat : (k + 1) * n = k * n + n
  OBVIOUS
<1>7. Whole' = Whole + FrameBytes
  BY <1>5, <1>6 DEF Whole, DropInv, DropTypeOK
<1>8. DropsConserved'
  <2>1. counted = frames + FramesTaken /\ Whole = bytes + BytesTaken
    BY ConservedIs DEF DropInv, Balanced
  <2>2. counted' = frames' + FramesTaken' /\ Whole' = bytes' + BytesTaken'
    BY <2>1, <1>4, <1>7, SumsAreNat DEF CountBytes, DropInv, DropTypeOK
  <2> QED  BY <1>1, <2>2, ConservedIsNext DEF Balanced
<1>9. DrainInv'
  BY <1>4 DEF DrainInv, DropInv, DropTypeOK, CountBytes
<1> QED  BY <1>1, <1>8, <1>9 DEF DropInv

LEMMA ChangedStep == ASSUME DropInv, Changed PROVE DropInv'
<1>1. DropTypeOK'
  BY DEF DropInv, DropTypeOK, Changed, Nothing, Summaries
<1>2. /\ \A t \in Takers : taker'[t].sum = taker[t].sum
      /\ taker'["shutdown"] = taker["shutdown"]
  BY DEF DropInv, DropTypeOK, Changed
<1>3. DropsConserved' /\ FramesTaken' = FramesTaken
  BY <1>1, <1>2, QuietStep DEF Changed, Halfway
<1> QED  BY <1>1, <1>2, <1>3 DEF DropInv, DrainInv, Changed

LEMMA SignalStep == ASSUME DropInv, Signal PROVE DropInv'
<1>1. DropTypeOK'
  BY DEF DropInv, DropTypeOK, Signal, Nothing, Summaries
<1>2. /\ \A t \in Takers : taker'[t].sum = taker[t].sum
      /\ taker'["shutdown"].at = "frames"
  BY DEF DropInv, DropTypeOK, Signal
<1>3. DropsConserved' /\ FramesTaken' = FramesTaken
  BY <1>1, <1>2, QuietStep DEF Signal, Halfway
<1> QED  BY <1>1, <1>2, <1>3 DEF DropInv, DropTypeOK, DrainInv, Signal

LEMMA ExitStep == ASSUME DropInv, Exit PROVE DropInv'
<1>1. DropTypeOK'
  BY DEF DropInv, DropTypeOK, Exit
<1>2. DropsConserved' /\ FramesTaken' = FramesTaken
  BY <1>1, QuietStep DEF Exit, Halfway
<1> QED  BY <1>1, <1>2 DEF DropInv, DrainInv, Exit

(* frames.swap(0): the frames change hands.                                *)
LEMMA TakeFramesStep == ASSUME DropInv, NEW t \in Takers, TakeFrames(t) PROVE DropInv'
<1> USE DEF DropInv, DropTypeOK
<1>1. DropTypeOK'
  BY DEF TakeFrames, AfterDrain, Nothing, Summaries
<1>2. /\ Taken(t).frames = 0 /\ Taken(t).bytes = 0
      /\ Taken(t)'.frames = frames /\ Taken(t)'.bytes = 0
      /\ \A u \in Takers \ {t} : taker'[u] = taker[u]
  BY DEF TakeFrames, Taken, Nothing, Summaries
<1>3. Whole' = Whole
  BY DEF TakeFrames, Whole, Halfway
<1>4. FramesTaken' = FramesTaken + frames /\ BytesTaken' = BytesTaken
  <2>1. CASE t = "watcher"
    BY <2>1, <1>2, SumsAreNat DEF FramesTaken, BytesTaken, Taken, Summaries, TakeFrames
  <2>2. CASE t = "shutdown"
    BY <2>2, <1>2, SumsAreNat DEF FramesTaken, BytesTaken, Taken, Summaries, TakeFrames
  <2> QED  BY <2>1, <2>2
<1>5. counted = frames + FramesTaken /\ Whole = bytes + BytesTaken
  BY ConservedIs DEF Balanced
<1>6. DropsConserved'
  <2>1. counted' = frames' + FramesTaken' /\ Whole' = bytes' + BytesTaken'
    BY <1>3, <1>4, <1>5, SumsAreNat DEF TakeFrames
  <2> QED  BY <1>1, <2>1, ConservedIsNext DEF Balanced
<1>7. FramesTaken' >= due' /\ due' <= counted'
  BY <1>4, <1>5, SumsAreNat DEF DrainInv, TakeFrames
<1>8. DrainInv'
  <2>1. CASE t = "watcher"
    BY <2>1, <1>2, <1>7 DEF DrainInv, TakeFrames, AfterDrain
  <2>2. CASE t = "shutdown" /\ frames = 0
    BY <2>2, <1>7 DEF DrainInv, TakeFrames, AfterDrain
  <2>3. CASE t = "shutdown" /\ frames # 0
    BY <2>3, <1>7 DEF DrainInv, TakeFrames
  <2> QED  BY <2>1, <2>2, <2>3
<1> QED  BY <1>1, <1>6, <1>8

(* bytes.swap(0).                                                          *)
LEMMA TakeBytesStep == ASSUME DropInv, NEW t \in Takers, TakeBytes(t) PROVE DropInv'
<1> USE DEF DropInv, DropTypeOK
<1>1. DropTypeOK'
  BY DEF TakeBytes, Nothing, Summaries
<1>2. /\ Taken(t).bytes = 0
      /\ Taken(t)'.frames = Taken(t).frames /\ Taken(t)'.bytes = bytes
      /\ taker'[t].at = "since"
      /\ \A u \in Takers \ {t} : taker'[u] = taker[u]
  BY DEF TakeBytes, Taken, Summaries
<1>3. Whole' = Whole
  BY DEF TakeBytes, Whole, Halfway
<1>4. FramesTaken' = FramesTaken /\ BytesTaken' = BytesTaken + bytes
  <2>1. CASE t = "watcher"
    BY <2>1, <1>2, SumsAreNat DEF FramesTaken, BytesTaken, Taken, Summaries, TakeBytes
  <2>2. CASE t = "shutdown"
    BY <2>2, <1>2, SumsAreNat DEF FramesTaken, BytesTaken, Taken, Summaries, TakeBytes
  <2> QED  BY <2>1, <2>2
<1>5. counted = frames + FramesTaken /\ Whole = bytes + BytesTaken
  BY ConservedIs DEF Balanced
<1>6. DropsConserved'
  <2>1. counted' = frames' + FramesTaken' /\ Whole' = bytes' + BytesTaken'
    BY <1>3, <1>4, <1>5, SumsAreNat DEF TakeBytes
  <2> QED  BY <1>1, <2>1, ConservedIsNext DEF Balanced
<1>7. DrainInv'
  <2>1. CASE t = "watcher"
    BY <2>1, <1>2, <1>4 DEF DrainInv, TakeBytes
  <2>2. CASE t = "shutdown"
    BY <2>2, <1>2, <1>4 DEF DrainInv, TakeBytes
  <2> QED  BY <2>1, <2>2
<1> QED  BY <1>1, <1>6, <1>7

LEMMA TakeWindowStep == ASSUME DropInv, NEW t \in Takers, TakeWindow(t) PROVE DropInv'
<1> USE DEF DropInv, DropTypeOK
<1>1. DropTypeOK'
  BY DEF TakeWindow, Nothing, Summaries
<1>2. /\ Taken(t)'.frames = Taken(t).frames /\ Taken(t)'.bytes = Taken(t).bytes
      /\ taker'[t].at = "emit"
      /\ \A u \in Takers \ {t} : taker'[u] = taker[u]
  BY DEF TakeWindow, Taken, Summaries
<1>3. Whole' = Whole
  BY DEF TakeWindow, Whole, Halfway
<1>4. FramesTaken' = FramesTaken /\ BytesTaken' = BytesTaken
  <2>1. CASE t = "watcher"
    BY <2>1, <1>2 DEF FramesTaken, BytesTaken, Taken, TakeWindow
  <2>2. CASE t = "shutdown"
    BY <2>2, <1>2 DEF FramesTaken, BytesTaken, Taken, TakeWindow
  <2> QED  BY <2>1, <2>2
<1>5. DropsConserved'
  <2>1. counted = frames + FramesTaken /\ Whole = bytes + BytesTaken
    BY ConservedIs DEF Balanced
  <2>2. counted' = frames' + FramesTaken' /\ Whole' = bytes' + BytesTaken'
    BY <1>3, <1>4, <2>1 DEF TakeWindow
  <2> QED  BY <1>1, <2>2, ConservedIsNext DEF Balanced
<1>6. DrainInv'
  <2>1. CASE t = "watcher"
    BY <2>1, <1>2, <1>4 DEF DrainInv, TakeWindow
  <2>2. CASE t = "shutdown"
    BY <2>2, <1>2, <1>4 DEF DrainInv, TakeWindow
  <2> QED  BY <2>1, <2>2
<1> QED  BY <1>1, <1>5, <1>6

(* The summary goes into a gap.                                            *)
LEMMA EmitStep == ASSUME DropInv, NEW t \in Takers, Emit(t) PROVE DropInv'
<1> USE DEF DropInv, DropTypeOK
<1>1. DropTypeOK'
  BY DEF Emit, AfterDrain, Nothing, Summaries
<1>2. /\ Taken(t)'.frames = 0 /\ Taken(t)'.bytes = 0
      /\ reported'.frames = reported.frames + Taken(t).frames
      /\ reported'.bytes = reported.bytes + Taken(t).bytes
      /\ taker'[t].at = "idle"
      /\ \A u \in Takers \ {t} : taker'[u] = taker[u]
  BY DEF Emit, Taken, Nothing
<1>3. Whole' = Whole
  BY DEF Emit, Whole, Halfway
<1>4. FramesTaken' = FramesTaken /\ BytesTaken' = BytesTaken
  <2>1. CASE t = "watcher"
    BY <2>1, <1>2, SumsAreNat DEF FramesTaken, BytesTaken, Taken, Summaries
  <2>2. CASE t = "shutdown"
    BY <2>2, <1>2, SumsAreNat DEF FramesTaken, BytesTaken, Taken, Summaries
  <2> QED  BY <2>1, <2>2
<1>5. DropsConserved'
  <2>1. counted = frames + FramesTaken /\ Whole = bytes + BytesTaken
    BY ConservedIs DEF Balanced
  <2>2. counted' = frames' + FramesTaken' /\ Whole' = bytes' + BytesTaken'
    BY <1>3, <1>4, <2>1 DEF Emit
  <2> QED  BY <1>1, <2>2, ConservedIsNext DEF Balanced
<1>6. DrainInv'
  <2>1. CASE t = "watcher"
    BY <2>1, <1>2, <1>4 DEF DrainInv, Emit, AfterDrain
  <2>2. CASE t = "shutdown"
    BY <2>2, <1>2, <1>4 DEF DrainInv, Emit, AfterDrain
  <2> QED  BY <2>1, <2>2
<1> QED  BY <1>1, <1>5, <1>6

-----------------------------------------------------------------------------
LEMMA DropInvStep == DropInv /\ [DropNext]_dvars => DropInv'
<1> SUFFICES ASSUME DropInv, [DropNext]_dvars PROVE DropInv'
  OBVIOUS
<1>1. CASE UNCHANGED dvars
  BY <1>1 DEF dvars, DropInv, DropTypeOK, DropsConserved, DrainInv, FramesTaken, Taken, Halfway
<1>2. CASE \E c \in Connections : Drop(c) \/ Record(c)
  BY <1>2, DropStep, CountFrameStep, StampStep, CountBytesStep DEF Record
<1>3. CASE \E t \in Takers : TakeAndEmit(t)
  BY <1>3, TakeFramesStep, TakeBytesStep, TakeWindowStep, EmitStep DEF TakeAndEmit
<1> QED  BY <1>1, <1>2, <1>3, PressureStep, TickStep, ChangedStep, SignalStep, ExitStep
         DEF DropNext

(* The inductive invariant of the counters and their takers.               *)
THEOREM DropInvariant == DropSpec => []DropInv
  BY InitStep, DropInvStep, PTL DEF DropSpec

(* MOD-29: every dropped frame and byte is in the counters, with one       *)
(* taker, or in exactly one coverage gap, for any number of connections.   *)
THEOREM DropsAreConserved == DropSpec => []DropsConserved
<1>1. DropInv => DropsConserved
  BY DEF DropInv
<1> QED  BY <1>1, DropInvariant, PTL

(* ingest.rs:15-16: what was counted when the signal came is in a gap when *)
(* the daemon stops, or in the hands of the watcher.                       *)
THEOREM ShutdownLeavesNothing == DropSpec => []ShutdownDrains
<1>1. DropInv => ShutdownDrains
  <2> SUFFICES ASSUME DropInv, shutdown = "stopped"
               PROVE  reported.frames + Taken("watcher").frames >= due
    BY DEF ShutdownDrains
  <2>1. taker["shutdown"].at = "idle" /\ FramesTaken >= due
    BY DEF DropInv, DrainInv
  <2>2. Taken("shutdown").frames = 0
    BY <2>1 DEF DropInv, DropTypeOK, Taken, Nothing
  <2>3. Taken("watcher").frames \in Nat /\ reported.frames \in Nat
    BY SumsAreNat DEF DropInv, DropTypeOK, Summaries
  <2> QED  BY <2>1, <2>2, <2>3 DEF FramesTaken, DropInv, DropTypeOK
<1> QED  BY <1>1, DropInvariant, PTL
=============================================================================
