---------------------------- MODULE ChooseChain ----------------------------
(***************************************************************************)
(* The stream combinator of heim-common (utils/stream/choose_chain.rs):    *)
(* items of the first stream and, only if it yields nothing at all, items  *)
(* of the second one.  heim-sensors chooses with it between the hwmon and  *)
(* the thermal_zone sensors.                                               *)
(*                                                                         *)
(* A source is the sequence of the items it will yield and a position in   *)
(* it; a poll that returns Pending moves nothing.  A source that returned  *)
(* None must not be polled again: `misuse` records a source that was.      *)
(* The caller may poll the combinator again after its own None.            *)
(***************************************************************************)
EXTENDS Naturals, Sequences

CONSTANTS Item,             \* what a stream yields, Ok and Err values alike
          Streams           \* the item sequences a source may have

ASSUME StreamsAssumption == Streams \subseteq Seq(Item)

VARIABLES items1, items2,   \* what the two sources will yield
          at1, at2,         \* items taken from each so far
          over1, over2,     \* the source has returned Ready(None)
          first,            \* the field `first` is Some
          first_yielded,    \* the field `first_yielded`
          out,              \* items the combinator has handed to its caller
          told,             \* the caller has been told None
          polled2,          \* history: the second source has been polled
          misuse            \* history: sources polled after their None

chainvars == <<items1, items2, at1, at2, over1, over2, first, first_yielded,
               out, told, polled2, misuse>>

ChainTypeOK == /\ items1 \in Streams /\ items2 \in Streams
               /\ at1 \in 0..Len(items1) /\ at2 \in 0..Len(items2)
               /\ over1 \in BOOLEAN /\ over2 \in BOOLEAN
               /\ first \in BOOLEAN /\ first_yielded \in BOOLEAN
               /\ out \in Seq(Item)
               /\ told \in BOOLEAN
               /\ polled2 \in BOOLEAN /\ misuse \in SUBSET {1, 2}

----------------------------------------------------------------------------
(* ChooseChain::new *)
ChainInit == /\ items1 \in Streams /\ items2 \in Streams
             /\ at1 = 0 /\ at2 = 0
             /\ over1 = FALSE /\ over2 = FALSE
             /\ first = TRUE
             /\ first_yielded = FALSE
             /\ out = <<>>
             /\ told = FALSE
             /\ polled2 = FALSE
             /\ misuse = {}

(* Polling a source notes whether it had already returned None. *)
Touch(k, isOver) == misuse' = IF isOver THEN misuse \union {k} ELSE misuse

(* The second source is polled; poll_next returns what that poll returns. *)
SecondPending == UNCHANGED <<at2, over2, out, told>>

SecondItem == /\ at2 < Len(items2)
              /\ at2' = at2 + 1
              /\ out' = Append(out, items2[at2 + 1])
              /\ UNCHANGED <<over2, told>>

SecondOver == /\ at2 = Len(items2)
              /\ over2' = TRUE
              /\ told' = TRUE
              /\ UNCHANGED <<at2, out>>

PollSecond == /\ polled2' = TRUE
              /\ Touch(2, over2)
              /\ SecondPending \/ SecondItem \/ SecondOver

(* `first` is Some and its poll is Pending: ready! returns at once. *)
FirstPending ==
  /\ first
  /\ Touch(1, over1)
  /\ UNCHANGED <<items1, items2, at1, at2, over1, over2, first,
                 first_yielded, out, told, polled2>>

(* Mutant: an item of the first stream is not remembered. *)
FirstItemForgotten ==
  /\ first
  /\ at1 < Len(items1)
  /\ Touch(1, over1)
  /\ at1' = at1 + 1
  /\ out' = Append(out, items1[at1 + 1])
  /\ UNCHANGED <<items1, items2, at2, over1, over2, first, first_yielded,
                 told, polled2>>

(* `first` is Some and yields an item. *)
FirstItem ==
  /\ first
  /\ at1 < Len(items1)
  /\ Touch(1, over1)
  /\ at1' = at1 + 1
  /\ first_yielded' = TRUE
  /\ out' = Append(out, items1[at1 + 1])
  /\ UNCHANGED <<items1, items2, at2, over1, over2, first, told, polled2>>

(* Mutant: a plain chain, which goes on with the second stream anyway. *)
AfterFirstChained == PollSecond

(* The branch on `first_yielded` once there is no first stream left. *)
AfterFirst ==
  \/ /\ first_yielded
     /\ told' = TRUE
     /\ UNCHANGED <<at2, over2, out, polled2, misuse>>
  \/ /\ ~first_yielded
     /\ PollSecond

(* Mutant: the exhausted first stream stays in its field. *)
FirstOverKept ==
  /\ first
  /\ at1 = Len(items1)
  /\ over1' = TRUE
  /\ AfterFirst
  /\ UNCHANGED <<items1, items2, at1, first, first_yielded>>

(* Mutant: the first stream is dropped with its last item, not after it. *)
FirstOverEarly ==
  /\ first
  /\ at1 + 1 >= Len(items1)
  /\ over1' = TRUE
  /\ first' = FALSE
  /\ at1' = at1 + 1
  /\ AfterFirst
  /\ UNCHANGED <<items1, items2, first_yielded>>

(* `first` is Some and returns None: the same call drops it and goes on. *)
FirstOver ==
  /\ first
  /\ at1 = Len(items1)
  /\ over1' = TRUE
  /\ first' = FALSE
  /\ AfterFirst
  /\ UNCHANGED <<items1, items2, at1, first_yielded>>

(* `first` was dropped by an earlier call. *)
FirstGone ==
  /\ ~first
  /\ AfterFirst
  /\ UNCHANGED <<items1, items2, at1, over1, first, first_yielded>>

poll_next == FirstPending \/ FirstItem \/ FirstOver \/ FirstGone

(* FusedStream::is_terminated, over a second source that knows whether it *)
(* has returned None.                                                     *)
is_terminated == ~first /\ over2

ChainSpec == ChainInit /\ [][poll_next]_chainvars

(* A source that is polled again and again does not stay Pending for      *)
(* ever: each of the polls that move something happens in the end.        *)
FairSpec == /\ ChainSpec
            /\ WF_chainvars(FirstItem)
            /\ WF_chainvars(FirstOver)
            /\ WF_chainvars(FirstGone /\ (out' # out \/ told' # told))

----------------------------------------------------------------------------
(* The stream that has to be chosen. *)
Chosen == IF items1 # <<>> THEN items1 ELSE items2

(* If the first stream yielded at least one item, the second one is not   *)
(* polled at all, neither before its first item nor after its end (the    *)
(* promise of HeimStreamExt::choose_chain).                               *)
Exclusive == polled2 => /\ items1 = <<>>
                        /\ ~first

(* The first source is never polled after its None, however often the     *)
(* caller polls; the second one is only by a caller that polls on after   *)
(* the combinator's own None.                                             *)
NoSourceOverPolled == /\ 1 \notin misuse
                      /\ 2 \in misuse => told

(* is_terminated never stops a caller while items are still to come: all  *)
(* the items of the chosen stream have been handed out by then.           *)
TerminatedMeansDrained == is_terminated => out = Chosen

(* However the caller polls, and whatever it believes of is_terminated, it *)
(* misuses no source and loses no item.                                   *)
PollingIsSafe == NoSourceOverPolled /\ TerminatedMeansDrained

(* The combinator implements the promise: its output is always a prefix   *)
(* of the chosen stream, None comes exactly at its end, nothing after it. *)
Abstract == INSTANCE EitherStream WITH promised <- Chosen,
                                       received <- out,
                                       over <- told

ImplementsEitherStream == Abstract!Spec

(* With sources that make progress the caller gets everything and is told *)
(* that the stream is over.                                               *)
CallerGetsAll == <>(told /\ out = Chosen)

============================================================================
