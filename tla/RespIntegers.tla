---------------------------- MODULE RespIntegers ----------------------------
(***************************************************************************)
(* The two integer parsers, parse_int_from_bytes (resp/parser.rs) and      *)
(* fused_parse_int (response.rs), on every text up to MaxLen bytes; with   *)
(* i64 narrowed to IntBits bits the texts cover both ends of its range and *)
(* several wraps beyond them.                                              *)
(***************************************************************************)
EXTENDS Response

CONSTANTS Alphabet, MaxLen

VARIABLE text   \* the line of a frame, as far as it has been received

Init == text = <<>>

Extend == /\ Len(text) < MaxLen
          /\ \E b \in Alphabet : text' = Append(text, b)

Spec == Init /\ [][Extend]_text

-----------------------------------------------------------------------------
\* The number a decimal text denotes.
Decimal(s) ==
  LET d == Unsigned(s)
      n == MapThenSumSet(LAMBDA i : DigitOf[d[i]] * 10^(Len(d) - i), DOMAIN d)
  IN IF Head(s) = "-" THEN -n ELSE n

WellFormed == AllDigits(Unsigned(text))

(* Both parsers refuse a text that is not a number, and return exactly the
   number of one that an i64 can hold, i64::MIN and i64::MAX included.  Beyond
   that range parse_int_from_bytes refuses every number but the one whose
   negation is i64::MIN, and fused_parse_int, which never refuses digits,
   returns the number modulo 2^IntBits. *)
IntegersExact ==
  IF ~WellFormed
  THEN parse_int_from_bytes(text) = Protocol /\ fused_parse_int(text) = Protocol
  ELSE /\ fused_parse_int(text) = Ok(Wrap(Decimal(text)), 0)
       /\ parse_int_from_bytes(text) =
            IF Decimal(text) \in IntMin..(IntMax + 1) THEN Ok(Wrap(Decimal(text)), 0) ELSE Protocol
       /\ Decimal(text) \in IntMin..IntMax => Wrap(Decimal(text)) = Decimal(text)

(* The test integer_overflow (resp/parser.rs) asserts that the first number
   beyond i64::MAX is an error: parse_int_from_bytes refuses every number that
   an i64 cannot hold.  The code negates i64::MIN instead. *)
OverflowRefused ==
  WellFormed /\ Decimal(text) \notin IntMin..IntMax => parse_int_from_bytes(text) = Protocol

=============================================================================
