-------------------------------- MODULE MCApi --------------------------------
(***************************************************************************)
(* The handlers of the API process and its service-account token, for TLC. *)
(* They share no state, so a behaviour follows one part of the process.    *)
(***************************************************************************)
EXTENDS ChangeStream, BusinessProcess, Listing, ResourceLookup, Federation, TokenSource

CONSTANTS a, b, campus, lab

VARIABLE part  \* the part that runs; the others stay in an initial state
vars == <<part, streamVars, processVars, listingVars, lookupVars, federationVars, tokenVars>>

\* two valid definitions and one whose root is no node
MCDefinitions ==
    {[nodes |-> <<a>>, roots |-> <<a>>], [nodes |-> <<a, b>>, roots |-> <<b>>],
     [nodes |-> <<a>>, roots |-> <<b>>]}

\* two rows share a name; the order of the names is not the order of the ids
MCNameOf == <<2, 1, 1>>

\* an id of a remote cluster, two of the local one, of which one owns the other; asked
\* for are a remote, a local and a mixed set
MCClusterOf == <<campus, Local, Local>>
MCOwnerOf == <<0, 0, 2>>
MCAsked == {{1}, {2}, {1, 2}}

Init ==
    /\ part \in {"stream", "process", "listing", "lookup", "federation", "token"}
    /\ StreamInit /\ ProcessInit /\ TokenInit
    /\ ListingInit /\ (part # "listing" => order = "id")
    /\ FederationInit /\ (part # "federation" => remote = [t \in Targets |-> 0])
    /\ IF part = "lookup" THEN LookupInit
       ELSE /\ exists = {} /\ fresh = [s \in Servers |-> 0] /\ store = [s \in Servers |-> {}]
            /\ answer = [r \in Remotes |-> 0] /\ reply = NoReply

Next ==
    /\ UNCHANGED part
    /\ \/ /\ part = "stream" /\ StreamNext
          /\ UNCHANGED <<processVars, listingVars, lookupVars, federationVars, tokenVars>>
       \/ /\ part = "process" /\ ProcessNext
          /\ UNCHANGED <<streamVars, listingVars, lookupVars, federationVars, tokenVars>>
       \/ /\ part = "listing" /\ ListingNext
          /\ UNCHANGED <<streamVars, processVars, lookupVars, federationVars, tokenVars>>
       \/ /\ part = "lookup" /\ LookupNext
          /\ UNCHANGED <<streamVars, processVars, listingVars, federationVars, tokenVars>>
       \/ /\ part = "federation" /\ FederationNext
          /\ UNCHANGED <<streamVars, processVars, listingVars, lookupVars, tokenVars>>
       \/ /\ part = "token" /\ TokenNext
          /\ UNCHANGED <<streamVars, processVars, listingVars, lookupVars, federationVars>>

\* ReadsContinue, for the behaviours that follow the federation
MCReadsContinue ==
    \A r \in Readers : \A f \in Flights :
      SF_federationVars(part = "federation" /\ Lookup(r, f))

Spec == Init /\ [][Next]_vars /\ CallsEnd /\ MCReadsContinue
=============================================================================
