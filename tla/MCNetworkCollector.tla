------------------------- MODULE MCNetworkCollector -------------------------
(* NetworkCollector on dumps of up to MaximumLinks links.                  *)
EXTENDS NetworkCollector

\* The kernel's numbering does not matter: the n-th link is the n-th index.
\* Names come in the reverse order.  One index no link has stands for those
\* a dump refers to and does not contain.
Fresh(n) ==
    [index : {n}, name : {MaximumLinks - n}, ethernet : {TRUE}, kind : {"", "bridge"},
     lower : {NoIndex}, master : Indexes \cup {NoIndex}, path : {"unread"}]
    \cup
    [index : {n}, name : {MaximumLinks - n}, ethernet : {TRUE}, kind : {"vlan"},
     lower : Indexes \cup {NoIndex}, master : Indexes \cup {NoIndex}, path : {"unread"}]
    \cup
    [index : {n}, name : {MaximumLinks - n}, ethernet : {FALSE}, kind : {""},
     lower : {NoIndex}, master : Indexes \cup {NoIndex}, path : {"unread"}]

\* A link that was renamed or replaced during the dump appears twice.
Repeated(n) ==
    {[index |-> 1, name |-> MaximumLinks - n, ethernet |-> TRUE, kind |-> "",
      lower |-> NoIndex, master |-> NoIndex, path |-> "unread"],
     [index |-> n, name |-> MaximumLinks - 1, ethernet |-> TRUE, kind |-> "",
      lower |-> NoIndex, master |-> NoIndex, path |-> "unread"]}

MCLinkInputs(n) == IF n > MaximumLinks THEN Repeated(1) ELSE Fresh(n) \cup Repeated(n)

\* Layered links are virtual devices; no path leads out of the device tree
\* but that of a link of another kind, such as a loopback.
MCPaths(link) ==
    CASE link.kind # "" -> {"virtual"}
      [] link.ethernet -> {"physical", "virtual"}
      [] OTHER -> {"virtual", "elsewhere"}
=============================================================================
