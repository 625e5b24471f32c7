---------------------------- MODULE MCCerebellum ----------------------------
(***************************************************************************)
(* Model values for Cerebellum: three advertised instances of _http._tcp:  *)
(* "cerebellum" resolving to an IPv4 address, "cerebellum-2" resolving to *)
(* an IPv6 address (inet_pton(AF_INET) rejects it), and                    *)
(* an unrelated "prn" printer.                                             *)
(***************************************************************************)
EXTENDS Cerebellum

CONSTANTS cer, cer6, prn

MCServiceKey ==
  <<"i","d","=","d","6","c","4","e","9","b","c","c","c","d","b","8","b","1",
    "6","0","8","3","0","3","6","b","4","5","0","4","8","d","d","5","2">>
MCServiceName == <<"c","e","r","e","b","e","l","l","u","m">>

MCInstances == {cer, cer6, prn}
MCInstName ==
  [i \in MCInstances |->
     CASE i = cer  -> MCServiceName
       [] i = cer6 -> MCServiceName \o <<"-", "2">>
       [] i = prn  -> <<"p", "r", "n">>]
MCInstAddr == [i \in MCInstances |-> IF i = cer6 THEN "ipv6" ELSE "ipv4"]

MCBrowserIds == 1..MaxRunning
MCClients == 1..MaxBrowseEvents
=============================================================================
