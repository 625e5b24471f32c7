----------------------------- MODULE ServiceKey -----------------------------
(***************************************************************************)
(* The string comparisons that decide which discovered service is "ours":  *)
(* the identity-key check s_service_check (core/avahi/avahi-service.c) and  *)
(* the name filter of the resolver callback (daemon/avahi/avahi-browser.c). *)
(* A C string is a sequence of characters; its terminating NUL is the end  *)
(* of the sequence, so a string never contains a NUL.                       *)
(***************************************************************************)
EXTENDS Naturals, Sequences

CONSTANTS
  ServiceKey,   \* _g_service_key, "id=d6c4e9bcccdb8b16083036b45048dd52"
  ServiceName,  \* the literal "cerebellum" of the resolver callback
  LenWidth      \* bit width of the uint8_t lengths of s_service_check

ASSUME LenWidth \in Nat \ {0}

\* strlen
StrLen(s) == Len(s)

(***************************************************************************)
(* strncmp(a, b, n): compares at most n characters and stops at the first  *)
(* difference or at the end of both strings.  Every caller only tests the  *)
(* result against 0, so the sign of a difference is abstracted to 1.       *)
(***************************************************************************)
RECURSIVE StrNCmp(_, _, _)
StrNCmp(a, b, n) ==
  IF n = 0 \/ (a = <<>> /\ b = <<>>) THEN 0
  ELSE IF a = <<>> \/ b = <<>> \/ Head(a) # Head(b) THEN 1
  ELSE StrNCmp(Tail(a), Tail(b), n - 1)

\* the _s_browser_min(str1, str2) macro: the shorter of the two lengths
BrowserMin(s1, s2) ==
  IF StrLen(s1) < StrLen(s2) THEN StrLen(s1) ELSE StrLen(s2)

(***************************************************************************)
(* The AVAHI_RESOLVER_FOUND filter of _s_browser_resolver_cbk: the name is  *)
(* compared with "cerebellum" over the length of the shorter of the two.   *)
(***************************************************************************)
NameMatches(name) ==
  StrNCmp(name, ServiceName, BrowserMin(name, ServiceName)) = 0

\* Fault variant of ServiceCheck: the length comparison is left out.
ServiceCheckNoLength(key) ==
  StrNCmp(key, ServiceKey, StrLen(key) % (2 ^ LenWidth))

(***************************************************************************)
(* s_service_check(key): both lengths are stored in a uint8_t, so they are *)
(* taken modulo 2^LenWidth; 0 means the key is accepted.                   *)
(***************************************************************************)
ServiceCheck(key) ==
  LET size    == StrLen(key) % (2 ^ LenWidth)
      keySize == StrLen(ServiceKey) % (2 ^ LenWidth)
  IN  IF size # keySize THEN 1 ELSE StrNCmp(key, ServiceKey, size)

\* The reference the specification gives: exact length, then every byte.
IdentityMatches(s) == s = ServiceKey
=============================================================================
