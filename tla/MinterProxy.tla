----------------------------- MODULE MinterProxy -----------------------------
(***************************************************************************)
(* The address everybody uses: an ERC1967 proxy that keeps the storage and *)
(* runs the code of an implementation, which the owner can exchange (UUPS). *)
(* Implementations are deployed in transactions of their own, and a        *)
(* proposed upgrade waits for its signers, so any version may come next.   *)
(*                                                                         *)
(* Every version runs the code of HypercertMinter; it may do so without an *)
(* upgradeTo of its own and still answer proxiableUUID.  Its own storage   *)
(* is locked by its constructor and is never looked at.                    *)
(***************************************************************************)
EXTENDS HypercertMinter

CONSTANTS
  Versions,           \* the implementations ever deployed that answer the slot
  Upgradeable,        \* those among them whose code has upgradeTo
  Foreign,            \* a contract that does not answer the slot
  NoImplementation    \* the slot before the proxy is deployed

ASSUME ProxyAssumption ==
  /\ {Foreign, NoImplementation} \cap Versions = {}
  /\ Upgradeable \subseteq Versions

VARIABLES
  implementation,   \* the proxy's implementation slot
  initialized       \* _initialized, in the proxy's storage

proxyVars == <<vars, implementation, initialized>>

ProxyTypeOK ==
  /\ TypeOK
  /\ implementation \in Versions \cup {NoImplementation}
  /\ initialized \in {0, 1}

ProxyInit ==
  /\ InitialStorage
  /\ owner = NoAccount
  /\ implementation = NoImplementation
  /\ initialized = 0

\* The proxy is deployed.
Deployed == implementation # NoImplementation

\* __Ownable_init and __Pausable_init, and with the constructor the slot.
Construct(s) ==
  /\ ~Deployed => s = Deployer
  /\ implementation' \in IF Deployed THEN {implementation} ELSE Versions
  /\ owner' = s
  /\ paused' = FALSE
  /\ UNCHANGED <<typeVars, tokenVars, allowlistVars, operatorApprovals>>

\* Mutant of NotInitialized: initialize() without its modifier.
NoModifier == TRUE

\* The initializer modifier.
NotInitialized == initialized < 1

\* Mutant of Initialize: the version is counted and not compared.
InitializeCounted(s) == initialized' = initialized + 1 /\ Construct(s)

\* initialize(), which the constructor of the proxy calls, and anyone may call
\* afterwards.
Initialize(s) ==
  /\ NotInitialized
  /\ initialized' = 1
  /\ Construct(s)

\* The new implementation answers the slot when asked for its proxiableUUID:
\* that is all it is asked, and not whether it can be upgraded in turn.
ProxiableUUID(i) == i # Foreign

\* upgradeTo of the present implementation, if it has one, to any version that
\* was ever deployed: an older proposal may be signed last.
UpgradeTo(s, i) ==
  /\ implementation \in Upgradeable
  /\ s = owner
  /\ ProxiableUUID(i)
  /\ implementation' = i
  /\ UNCHANGED <<vars, initialized>>

ProxyBy(s) ==
  \/ Initialize(s)
  \/ \E i \in Versions \cup {Foreign} : UpgradeTo(s, i)
  \/ /\ Deployed
     /\ NextBy(s)
     /\ UNCHANGED <<implementation, initialized>>

ProxyNext == \E s \in Accounts : ProxyBy(s)

ProxySpec == ProxyInit /\ [][ProxyNext]_proxyVars

-----------------------------------------------------------------------------
(* Properties.  Those of HypercertMinter are checked here as well: storage *)
(* and promises outlive every upgrade.                                     *)

\* Once the proxy is deployed, its owner, its implementation and whether it is
\* paused change by the owner's own transaction alone. An owner that renounces
\* while the contract is paused, or on an old version, leaves it so for good.
OwnerDecides ==
  [][(/\ Deployed
      /\ <<owner, implementation, paused>>' # <<owner, implementation, paused>>) =>
       \A s \in Accounts : ProxyBy(s) => s = owner]_proxyVars
=============================================================================
