---- MODULE MCSdkNode ----
(* Instances of SdkNode for TLC. *)
EXTENDS SdkNode

CONSTANTS ka, kb, stranger

\* Identity ids of one byte; that of ka is also in kb's address book.
Hashes == ka :> <<1>> @@ kb :> <<2>> @@ stranger :> <<3>>
PeerIds == {<<1>>, <<4>>}

\* Names that are the same when written one after the other.
NearScopes == {<<<<1>>, <<2, 3>>>>, <<<<1, 2>>, <<3>>>>}

\* One bit is not defined by MachineKeyCapabilities.
AnyRequest == {<<{1, 8}, 1>>}

Pair(threshold, total) == [threshold |-> threshold, total |-> total]

\* Machine keys of two accounts and shares that may be too few; the outbox;
\* address books of two accounts; sectors of one.
FourWorkloads ==
    {[services |-> {"keys"}, accounts |-> {ka, kb}, configs |-> {Pair(2, 3), Pair(0, 1)},
      peers |-> {}],
     [services |-> {"outbox"}, accounts |-> {ka}, configs |-> {Pair(1, 1)}, peers |-> {}],
     [services |-> {"contacts"}, accounts |-> {ka, kb}, configs |-> {Pair(1, 1)},
      peers |-> PeerIds],
     [services |-> {"contacts", "sectors"}, accounts |-> {ka}, configs |-> {Pair(1, 1)},
      peers |-> {<<4>>}]}
====
