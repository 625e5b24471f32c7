---------------------------- MODULE MCServiceKey ----------------------------
(***************************************************************************)
(* Checks the two comparisons of ServiceKey against the reference over a   *)
(* bounded set of candidate strings: every short string over a small       *)
(* alphabet, every prefix and every one-character variant of the key and   *)
(* of "cerebellum", and the key followed by 0..PadMax padding characters,  *)
(* which reaches the lengths where a uint8_t length wraps around.          *)
(***************************************************************************)
EXTENDS ServiceKey, SequencesExt

CONSTANTS Alphabet, ShortMax, PadMax

\* the real _g_service_key and "cerebellum", one character per element
MCServiceKey ==
  <<"i","d","=","d","6","c","4","e","9","b","c","c","c","d","b","8","b","1",
    "6","0","8","3","0","3","6","b","4","5","0","4","8","d","d","5","2">>
MCServiceName == <<"c","e","r","e","b","e","l","l","u","m">>

Pad(n) == [j \in 1..n |-> "x"]

Variants(s) ==
  Prefixes(s) \cup { [s EXCEPT ![k] = "x"] : k \in 1..Len(s) }
              \cup { s \o Pad(n) : n \in 0..PadMax }

Candidates ==
  BoundedSeq(Alphabet, ShortMax) \cup Variants(ServiceKey)
                                 \cup Variants(ServiceName)

VARIABLE candidate

Init == candidate \in Candidates
Next == candidate' \in Candidates
Spec == Init /\ [][Next]_candidate

(***************************************************************************)
(* s_service_check accepts a key shorter than the wrap-around length of    *)
(* its uint8_t lengths exactly when it is byte-identical to the key.       *)
(***************************************************************************)
ServiceCheckExactBelowWrap ==
  StrLen(candidate) < 2 ^ LenWidth =>
    (ServiceCheck(candidate) = 0 <=> IdentityMatches(candidate))

(***************************************************************************)
(* Spec sections 4.3 and 8: the resolver callback hands a resolved service *)
(* to the find callback exactly when its name matches the identity token   *)
(* by exact length and bytes.                                              *)
(***************************************************************************)
ResolverFilterExact ==
  NameMatches(candidate) <=> IdentityMatches(candidate)
=============================================================================
