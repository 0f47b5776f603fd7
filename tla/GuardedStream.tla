--------------------------- MODULE GuardedStream ---------------------------
(***************************************************************************)
(* What a client is shown of a text the model writes: _guarded_model_stream*)
(* and _yield_safe_chunks of ai/orchestrator.py, over ai/compliance.py.    *)
(* The model sends pieces of any length.  A phrase of advice must not be   *)
(* shown even if it comes in several pieces, so the end of what came is    *)
(* held back until it cannot be the beginning of one.                      *)
(*                                                                         *)
(* A text is a sequence of letters; the disclaimer, which the model may    *)
(* write itself, and the fixed sentences of the platform are one each.     *)
(*                                                                         *)
(* HoldsLess is a faulty variant of the definition after it; the           *)
(* specification does not use it.                                          *)
(***************************************************************************)
EXTENDS SequencesExt, FiniteSetsExt

CONSTANTS
  Letters,
  Flags,   \* ADVICE_REDFLAGS
  MaxText  \* bound: letters of a text

Disclaimer == "disclaimer"
Notice     == "notice"   \* ADVICE_REPLACEMENT
Sorry      == "sorry"
(* Phrases are not empty, one of them is the longest, and the sentences of *)
(* the platform are no letters of theirs.                                  *)
ASSUME FlagsAssumption ==
  /\ Flags \subseteq Seq(Letters) \ {<<>>}
  /\ \E longest \in Flags : \A flag \in Flags : Len(flag) <= Len(longest)
ASSUME LettersAssumption == {Disclaimer, Notice, Sorry} \cap Letters = {} /\ MaxText \in Nat

Text == BoundedSeq(Letters \cup {Disclaimer}, MaxText)

VARIABLES
  text,     \* what the model writes
  read,     \* how much of it has come
  buffer,
  emitted,
  pc

guard == <<text, read, buffer, emitted, pc>>

(* find_advice_flags, has_disclaimer *)
HasAdvice(words) == \E flag \in Flags, i \in 0 .. Len(words) :
                      i + Len(flag) <= Len(words) /\ SubSeq(words, i + 1, i + Len(flag)) = flag
HasDisclaimer(words) == Contains(words, Disclaimer)

(* stream_compliance_tail, whose other note nothing that is emitted needs  *)
TailNote(words) == IF HasDisclaimer(words) THEN <<>> ELSE <<Disclaimer>>

EnforceCompliance(words) ==
  LET base == IF words = <<>> THEN <<Sorry>> ELSE IF HasAdvice(words) THEN <<Notice>> ELSE words
  IN  base \o TailNote(base)

HoldsLess == Max({Len(flag) : flag \in Flags}) - 2
Hold == Max({Len(flag) : flag \in Flags}) - 1

GuardInit ==
  /\ text \in Text /\ pc \in {"stream", "whole"}
  /\ read = 0 /\ buffer = <<>> /\ emitted = <<>>

Piece ==
  \E upto \in read + 1 .. Len(text) :
    LET all  == buffer \o SubSeq(text, read + 1, upto)
        kept == IF Len(all) > Hold THEN SubSeq(all, Len(all) - Hold + 1, Len(all)) ELSE all
    IN  /\ pc = "stream" /\ read' = upto /\ UNCHANGED text
        /\ IF HasAdvice(all)
           THEN /\ emitted' = emitted \o <<Notice>> \o TailNote(emitted)
                /\ buffer' = <<>> /\ pc' = "end"
           ELSE /\ emitted' = emitted \o SubSeq(all, 1, Len(all) - Len(kept))
                /\ buffer' = kept /\ UNCHANGED pc

StreamEnds ==
  LET all == emitted \o buffer IN
  /\ pc = "stream" /\ read = Len(text) /\ pc' = "end" /\ buffer' = <<>>
  /\ emitted' = IF all = <<>> THEN EnforceCompliance(<<>>) ELSE all \o TailNote(all)
  /\ UNCHANGED <<text, read>>

(* An answer that is known as a whole, sent in chunks. *)
WholeText ==
  /\ pc = "whole" /\ pc' = "end" /\ emitted' = EnforceCompliance(text) /\ read' = Len(text)
  /\ UNCHANGED <<text, buffer>>

GuardNext == Piece \/ StreamEnds \/ WholeText

GuardSpec == GuardInit /\ [][GuardNext]_guard
-----------------------------------------------------------------------------
(* Nothing that is shown contains advice, in however small pieces the      *)
(* model sends it; the end has a disclaimer; and a text without advice is  *)
(* shown as it is (_guarded_model_stream).                                 *)
ShownIsSafe ==
  /\ ~HasAdvice(emitted)
  /\ pc = "end" =>
       /\ HasDisclaimer(emitted)
       /\ ~HasAdvice(text) => IsPrefix(text, emitted)
=============================================================================
