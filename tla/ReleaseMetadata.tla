--------------------------- MODULE ReleaseMetadata ---------------------------
(***************************************************************************)
(* Where the operator finds the metadata of a release: the config map of   *)
(* an air gapped cluster, which the upgrade command or the operator itself *)
(* has copied from the registry, or the metrics server; and the cache in   *)
(* front of both, which holds, for an air gapped release, the metadata as  *)
(* customised for a registry with a TLS secret.                            *)
(*                                                                         *)
(* Simplifications: of the metadata only the TLS setting of the registry's *)
(* chart is followed ("plain" or "tls"); the secret of the registry is     *)
(* there from the start or never, because nothing in the code makes it;    *)
(* the operator has one call at a time (the mutex); the command, a process *)
(* of its own, is followed only as far as the config map.                  *)
(***************************************************************************)
CONSTANT
    Versions        \* embedded cluster versions

VARIABLES
    airgap,         \* spec.airGap; never changes
    configMaps,     \* versions whose metadata is in a config map
    copying,        \* versions which the upgrade command found without one
    tlsSecret,      \* does the secret registry-tls exist? never changes
    cache,          \* the operator's cache of every version
    call            \* the operator's call: step, version, the metadata returned

\* An auxiliary variable, for the properties.
VARIABLE
    unread          \* versions for which the secret could not be read since the restart

metadataVars == <<airgap, configMaps, copying, tlsSecret, cache, call, unread>>

Meta == {"plain", "tls"}
NoCall == [step |-> "idle", meta |-> ""]

MetadataTypeOK ==
    /\ airgap \in BOOLEAN
    /\ configMaps \in SUBSET Versions
    /\ copying \in SUBSET Versions
    /\ tlsSecret \in BOOLEAN
    /\ cache \in [Versions -> Meta \cup {"miss"}]
    /\ call \in [step : {"idle", "copy", "lookup", "read", "secret", "done"},
                 meta : Meta \cup {"", "error", "uncopied"}]
    /\ unread \in SUBSET Versions

Miss == [v \in Versions |-> "miss"]

\* The installer has made the config map of the first release.
MetadataInit(first) ==
    /\ airgap \in BOOLEAN
    /\ configMaps = IF airgap THEN {first} ELSE {}
    /\ copying = {}
    /\ tlsSecret \in {airgap, FALSE}
    /\ cache = Miss
    /\ call = NoCall
    /\ unread = {}

-------------------------------------------------------------------------------
(* The operator's call for version v.  Return ends it, with an error or not. *)

Return(meta) == call' = [step |-> "done", meta |-> meta]
Continue(step) == call' = [call EXCEPT !.step = step]

LookUp == [step |-> "lookup", meta |-> ""]

\* Before it looks for the metadata of an upgrade the operator of an air gapped cluster
\* makes the config map, unless it is there.
CopyThenLookUp(v) ==
    [step |-> IF airgap /\ v \notin configMaps THEN "copy" ELSE "lookup", meta |-> ""]

\* Create fails when the command has been faster.
CopyVersionMetadataToCluster(v) ==
    /\ call.step = "copy"
    /\ \/ v \notin configMaps /\ configMaps' = configMaps \cup {v} /\ Continue("lookup")
       \/ v \in configMaps /\ Return("uncopied") /\ UNCHANGED configMaps
    /\ UNCHANGED cache

MutantCached(v) == {v}
\* The entries that answer a call for version v.
Cached(v) == {w \in {v} : cache[w] # "miss"}

MetaFromCache(v) ==
    /\ call.step = "lookup"
    /\ \/ \E w \in Cached(v) : Return(cache[w])
       \/ Cached(v) = {} /\ Continue("read")
    /\ UNCHANGED <<cache, configMaps>>

RemoteMetadataFor(v) ==
    /\ call.step = "read" /\ ~airgap
    /\ cache' = [cache EXCEPT ![v] = "plain"]
    /\ Return("plain")
    /\ UNCHANGED configMaps

\* The metadata is in the cache before the secret has been read.
LocalMetadataFor(v) ==
    /\ call.step = "read" /\ airgap
    /\ \/ v \in configMaps /\ cache' = [cache EXCEPT ![v] = "plain"] /\ Continue("secret")
       \/ v \notin configMaps /\ Return("error") /\ UNCHANGED cache
    /\ UNCHANGED configMaps

MutantConfigured(v) == cache
\* The customised metadata takes the place of what was cached.
Configured(v) == [cache EXCEPT ![v] = "tls"]

ConfigureRegistryTLS(v) ==
    /\ call.step = "secret"
    /\ \/ tlsSecret /\ cache' = Configured(v) /\ Return("tls")
       \/ ~tlsSecret /\ Return("plain") /\ UNCHANGED cache
    /\ UNCHANGED configMaps

MetadataFor(v) ==
    /\ \/ CopyVersionMetadataToCluster(v)
       \/ MetaFromCache(v)
       \/ RemoteMetadataFor(v)
       \/ LocalMetadataFor(v)
       \/ ConfigureRegistryTLS(v)
    /\ UNCHANGED <<airgap, copying, tlsSecret, unread>>

\* The registry, the metrics server or the API server fails.
MetadataFails(v) ==
    /\ \/ call.step = "copy" /\ Return("uncopied") /\ UNCHANGED unread
       \/ call.step = "read" /\ Return("error") /\ UNCHANGED unread
       \/ call.step = "secret" /\ Return("error") /\ unread' = unread \cup {v}
    /\ UNCHANGED <<airgap, configMaps, copying, tlsSecret, cache>>

-------------------------------------------------------------------------------
(* The upgrade command, and a restart of the operator                      *)

CommandFindsNoMetadata(v) ==
    /\ airgap
    /\ v \notin configMaps \cup copying
    /\ copying' = copying \cup {v}
    /\ UNCHANGED <<airgap, configMaps, tlsSecret, cache, call, unread>>

\* The command fails if the operator has been faster.
CommandCopies(v) ==
    /\ v \in copying
    /\ copying' = copying \ {v}
    /\ configMaps' = configMaps \cup {v}
    /\ UNCHANGED <<airgap, tlsSecret, cache, call, unread>>

\* The cache is the process's.
RestartMetadata ==
    /\ cache' = Miss
    /\ call' = NoCall
    /\ unread' = {}
    /\ UNCHANGED <<airgap, configMaps, copying, tlsSecret>>
===============================================================================
