---------------------------- MODULE NormalisedKey ----------------------------
(***************************************************************************)
(* crates/index/src/normalised_key.rs: the fixed-size key under which the  *)
(* range index files an attribute value, and the type_min / type_max       *)
(* sentinels with which crates/query/src/executor.rs closes an open range. *)
(*                                                                         *)
(* A byte array compared byte by byte is a number in base Byte, so a key   *)
(* is a natural number.  The widths are parameters: the code has Byte =    *)
(* 256, TextBytes = 13, IntBytes = 8, CtxBytes = 4, and text and blob end  *)
(* in a continuation flag and a length byte.                               *)
(***************************************************************************)
EXTENDS Integers, Sequences

CONSTANTS
    Byte,       \* number of values of a byte
    TextBytes,  \* bytes of a text or blob the key keeps
    IntBytes,   \* bytes of an integer, a timestamp or a float
    CtxBytes,   \* bytes of the context tag of a scoped value
    Repl        \* first byte of the UTF-8 replacement character

Payload == TextBytes + 2
IntMin == -((Byte ^ IntBytes) \div 2)
IntMax == (-IntMin) - 1

\* A value: text and blob carry bytes, int and timestamp a number, float a
\* sign and a magnitude, scoped a context and another value.
Text(s) == [t |-> "text", b |-> s]
Blob(s) == [t |-> "blob", b |-> s]
IntV(n) == [t |-> "int", n |-> n]
Timestamp(n) == [t |-> "timestamp", n |-> n]
FloatV(sign, mag) == [t |-> "float", s |-> sign, m |-> mag]
Scoped(ctx, v) == [t |-> "scoped", ctx |-> ctx, inner |-> v]

TypeTag == [text |-> 0, int |-> 1, float |-> 2, timestamp |-> 3,
            blob |-> 4, scoped |-> 5]

BytesKey(s) ==
    LET byte[i \in 0 .. TextBytes] ==
            IF i = 0 THEN 0
            ELSE byte[i - 1] * Byte + (IF i <= Len(s) THEN s[i] ELSE 0)
        more == IF Len(s) > TextBytes THEN 1 ELSE 0
        len == IF Len(s) < Byte THEN Len(s) ELSE Byte - 1
    IN  (byte[TextBytes] * Byte + more) * Byte + len

IntKey(n) == (n - IntMin) * Byte ^ (Payload - IntBytes)
FloatKey(v) == (IF v.s = 0 THEN v.m - IntMin ELSE (-IntMin) - 1 - v.m)
                   * Byte ^ (Payload - IntBytes)

PayloadOf(v) ==
    CASE v.t \in {"text", "blob"} -> BytesKey(v.b)
      [] v.t \in {"int", "timestamp"} -> IntKey(v.n)
      [] v.t = "float" -> FloatKey(v)

\* The key of a scoped value keeps the context and the head of the inner
\* payload, without the inner type.
from_value(v) ==
    TypeTag[v.t] * Byte ^ Payload
        + IF v.t = "scoped"
          THEN v.ctx * Byte ^ (Payload - CtxBytes)
                   + PayloadOf(v.inner) \div Byte ^ CtxBytes
          ELSE PayloadOf(v)

LongRun(b) == [i \in 1 .. TextBytes + 1 |-> b]

\* The text sentinel goes through from_utf8_lossy, which turns each invalid
\* byte into the replacement character.
Extreme(v, int, float, text, blob) ==
    CASE v.t = "int" -> IntV(int)
      [] v.t = "timestamp" -> Timestamp(int)
      [] v.t = "float" -> float
      [] v.t = "text" -> Text(text)
      [] v.t = "blob" -> Blob(blob)

TypeExtreme(v, int, float, text, blob) ==
    IF v.t = "scoped"
    THEN Scoped(v.ctx, Extreme(v.inner, int, float, text, blob))
    ELSE Extreme(v, int, float, text, blob)

type_min(v) == TypeExtreme(v, IntMin, FloatV(1, IntMax), <<>>, <<>>)
type_max(v) ==
    TypeExtreme(v, IntMax, FloatV(0, IntMax), LongRun(Repl), LongRun(Byte - 1))

-----------------------------------------------------------------------------
(* The order the keys are to reproduce.                                    *)

BytesLess(s, t) ==
    \/ \E i \in 1 .. Len(s) : /\ i <= Len(t)
                              /\ SubSeq(s, 1, i - 1) = SubSeq(t, 1, i - 1)
                              /\ s[i] < t[i]
    \/ Len(s) < Len(t) /\ s = SubSeq(t, 1, Len(s))

PlainLess(v, w) ==
    CASE v.t \in {"text", "blob"} -> BytesLess(v.b, w.b)
      [] v.t \in {"int", "timestamp"} -> v.n < w.n
      [] v.t = "float" -> (IF v.s = 0 THEN v.m ELSE (-v.m) - 1)
                             < (IF w.s = 0 THEN w.m ELSE (-w.m) - 1)

SameType(v, w) ==
    IF v.t = "scoped" /\ w.t = "scoped"
    THEN v.ctx = w.ctx /\ v.inner.t = w.inner.t
    ELSE v.t = w.t

NaturalLess(v, w) ==
    IF v.t = "scoped" THEN PlainLess(v.inner, w.inner) ELSE PlainLess(v, w)

\* The values a key stands for without loss: no truncated text or blob, and
\* nothing at or above the sentinel of its type.
Representable(v) ==
    /\ from_value(v) < from_value(type_max(v))
    /\ v.t \in {"text", "blob"} => Len(v.b) <= TextBytes
    /\ v.t = "scoped" => /\ v.inner.t # "scoped"
                         /\ v.inner.t \in {"text", "blob"}
                                => Len(v.inner.b) <= TextBytes - CtxBytes
=============================================================================
