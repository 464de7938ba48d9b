---------------------------- MODULE MCDnsMessage ----------------------------
(* Packets of up to six bytes over a terminator, short labels and pointers. *)
EXTENDS DnsMessage

MCBytes == {0, 1, 3, 192}
MCLabels == {<<1>>, <<3, 0>>}
MCNames == {<<a>> : a \in MCLabels} \cup {<<a, b>> : a, b \in MCLabels}
\* encode_name writes these too: no name at all, and one with two dots in a row.
MCHollow == {<<<<>>>>, <<<<1>>, <<>>, <<1>>>>}
MCQueries == {<<a>> : a \in MCNames \cup MCHollow} \cup {<<a, b>> : a, b \in MCNames}
=============================================================================
