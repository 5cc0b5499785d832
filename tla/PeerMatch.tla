------------------------------ MODULE PeerMatch ------------------------------
(***************************************************************************)
(* p2p/peer.go, matchProtocols: each side of a connection assigns ranges   *)
(* of message codes to the subprotocols both support, from its own         *)
(* protocols and the capabilities the other side announced.  Nothing else  *)
(* is exchanged: the two computations must agree.                          *)
(*                                                                         *)
(* Names and versions are numbers, in the order in which they are sorted.  *)
(***************************************************************************)
EXTENDS Integers, FiniteSets, FiniteSetsExt

CONSTANTS
  Name, Version,        \* of subprotocols
  Length,               \* Length[n][v]: number of message codes
  BaseProtocolLength,   \* baseProtocolLength
  NoMatch               \* no version of a name is running

ASSUME MatchAssumption ==
  /\ Name \subseteq Nat /\ Version \subseteq Nat
  /\ Length \in [Name -> [Version -> Nat]] /\ BaseProtocolLength \in Nat
  /\ NoMatch \notin [version : Version, offset : Nat]

VARIABLES
  protocols,   \* what each side supports
  caps,        \* what each side still has to match
  offset,      \* the next free code of each side
  result       \* protocols it runs: name -> version and offset

matchVars == <<protocols, caps, offset, result>>

Side == {"local", "remote"}
Other(s) == IF s = "local" THEN "remote" ELSE "local"
Cap == [name : Name, version : Version]

\* Cap.Cmp
Less(a, b) == a.name < b.name \/ (a.name = b.name /\ a.version < b.version)

MatchInit ==
  /\ protocols \in [Side -> SUBSET Cap]
  /\ caps = [s \in Side |-> protocols[Other(s)]]
  /\ offset = [s \in Side |-> BaseProtocolLength]
  /\ result = [s \in Side |-> [n \in Name |-> NoMatch]]

\* The protocol that a capability matches is one of this side's own.
BugMatches(s, c) == \E p \in protocols[s] : p.name = c.name
Matches(s, c) == c \in protocols[s]

\* An older version that matched before is reverted.
BugReverted(s, n) == offset[s]
Reverted(s, n) ==
  IF result[s][n] = NoMatch THEN offset[s] ELSE offset[s] - Length[n][result[s][n].version]

\* One capability of the other side, in sorted order.
Match(s) ==
  \E c \in caps[s] :
    /\ \A d \in caps[s] : ~Less(d, c)
    /\ LET at == Reverted(s, c.name)
       IN IF Matches(s, c)
            THEN /\ result' = [result EXCEPT ![s][c.name] = [version |-> c.version, offset |-> at]]
                 /\ offset' = [offset EXCEPT ![s] = at + Length[c.name][c.version]]
            ELSE UNCHANGED <<result, offset>>
    /\ caps' = [caps EXCEPT ![s] = @ \ {c}]
    /\ UNCHANGED protocols

MatchNext == \E s \in Side : Match(s)
MatchSpec == MatchInit /\ [][MatchNext]_matchVars

-----------------------------------------------------------------------------
(* Properties *)
Running(s) == {n \in Name : result[s][n] # NoMatch}

\* getProto: a code is in the range of a protocol.
Handles(s, n, code) ==
  n \in Running(s) /\ code \in result[s][n].offset..(result[s][n].offset + Length[n][result[s][n].version] - 1)

\* At every point of the loop the running protocols share out the codes from the
\* base protocol's up to the next free one: no code has two handlers, none is
\* skipped when an older version is replaced.
CodesShared ==
  \A s \in Side : \A code \in 0..(offset[s] + 1) :
    Cardinality({n \in Name : Handles(s, n, code)}) =
      IF code \in BaseProtocolLength..(offset[s] - 1) THEN 1 ELSE 0

\* Both sides run the highest version both support of each protocol, at the same
\* offset, although each matches other lists.
SidesAgree ==
  (\A s \in Side : caps[s] = {}) =>
    \A n \in Name :
      LET common == {c.version : c \in {c \in protocols["local"] \cap protocols["remote"] : c.name = n}}
      IN /\ result["local"][n] = result["remote"][n]
         /\ IF common = {} THEN result["local"][n] = NoMatch
            ELSE result["local"][n].version = Max(common)
=============================================================================
