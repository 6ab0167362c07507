---------------------------- MODULE Fingerprints ----------------------------
(***************************************************************************)
(* The registry of TLS fingerprint profiles: FingerprintRegistry, the      *)
(* files it is loaded from and saved to, the plugin loaders, and what the  *)
(* import of cycletls.fingerprints does.                                   *)
(*                                                                         *)
(* A profile is [name, opts, headers]; a name is [family, version,         *)
(* platform], the parts of it the registry looks at.  opts holds the       *)
(* options that are set, so to_dict and from_dict are inverse, and an item *)
(* of a file is a profile or None, an entry without a name or a ja3.       *)
(***************************************************************************)
EXTENDS Naturals, Sequences, FiniteSets, SequencesExt, Structures

CONSTANTS Profiles,        \* the profiles that a program may register
          DefaultItems,    \* what the default file holds before the first import
          ExtraFile,       \* what CYCLETLS_FINGERPRINTS_FILE names, or None
          TrackmeFile,     \* the entries of CYCLETLS_TRACKME_FINGERPRINT_FILE, or None
          PluginFiles,     \* the files of CYCLETLS_FINGERPRINTS_DIR
          Exported,        \* _PROFILE_EXPORTS: module attribute -> name of a profile
          MaxRegistryOps   \* bound: calls of the registry

VARIABLES profiles,    \* FingerprintRegistry._profiles
          exports,     \* the module attributes bound at import
          defaultFile, \* data/fingerprints.json
          saving,      \* TRUE between the truncation and the write of save_to_file
          process,     \* "down", "running" or "broken": the import raised
          registryOps,
          persisted    \* ghost: what the last save that completed wrote

registryVars == <<profiles, exports, defaultFile, saving, process, registryOps, persisted>>

-----------------------------------------------------------------------------
(* A file: its items, or torn (not JSON).                                  *)
File(items) == [torn |-> FALSE, items |-> items]
TornFile == [torn |-> TRUE, items |-> << >>]

(* register, for one profile after the other: of two with the same name    *)
(* the later one stays.  An item that is no profile is passed over.        *)
RegisterMany(registry, items) ==
  LET usable == {i \in DOMAIN items : items[i] # None}
      named(n) == {i \in usable : items[i].name = n}
      last(n) == CHOOSE i \in named(n) : \A j \in named(n) : j <= i
  IN  Over([n \in {items[i].name : i \in usable} |-> items[last(n)]], registry)

(* As LoadFromFile below, up to the first item that is not a profile.      *)
LoadFromFileToFirstBad(registry, file, clear) ==
  LET bad == {i \in DOMAIN file.items : file.items[i] = None}
      upTo == IF bad = {} THEN Len(file.items)
              ELSE (CHOOSE i \in bad : \A j \in bad : i <= j) - 1
  IN  IF file.torn THEN registry
      ELSE RegisterMany(IF clear THEN Empty ELSE registry, SubSeq(file.items, 1, upTo))

(* load_from_file: every item is parsed before the registry is touched.    *)
LoadFromFile(registry, file, clear) ==
  IF file.torn THEN registry
  ELSE RegisterMany(IF clear THEN Empty ELSE registry, file.items)

(* save_to_file: the registry, sorted by name.                             *)
SavedItems(registry) == SetToSeq({registry[n] : n \in DOMAIN registry})

(* The captures: an entry is a profile, None (nothing usable) or, in the   *)
(* old format, a browser with its user agent, ja3 and the frames it sent.  *)
(* The family is what the name starts with; a version that the user agent  *)
(* does not tell counts as 0.                                              *)
Family(browser) == IF browser = "msedge" THEN "edge" ELSE browser

TrackmeVersion(browser, agent) ==
  CASE browser = "firefox" -> agent.firefox
    [] browser \in {"chromium", "chrome"} -> agent.major
    [] OTHER -> 0

(* The first HEADERS frame with a header that is not a pseudo-header.      *)
TrackmeHeaderOrder(frames) ==
  LET hits == {i \in DOMAIN frames : frames[i].type = "HEADERS" /\ frames[i].names # {}}
  IN  IF hits = {} THEN {} ELSE frames[CHOOSE i \in hits : \A j \in hits : i <= j].names

NormalizeTrackme(entry) ==
  IF entry = None \/ ~Has(entry, "browser") THEN entry
  ELSE [name |-> [family |-> Family(entry.browser), platform |-> None,
                  version |-> <<TrackmeVersion(entry.browser, Agent[entry.ua])>>],
        opts |-> [ja3 |-> entry.ja3, user_agent |-> entry.ua,
                  header_order |-> TrackmeHeaderOrder(entry.frames)],
        headers |-> None]

(* load_trackme_fingerprints: the entries that have a name and a ja3.      *)
LoadTrackme(registry, entries) ==
  RegisterMany(registry, [i \in DOMAIN entries |-> NormalizeTrackme(entries[i])])

(* The attributes that the import binds.                                   *)
Exports(registry) ==
  [a \in {b \in DOMAIN Exported : Has(registry, Exported[b])} |-> registry[Exported[a]]]

(* plugins: one profile for each file; a file that does not parse is       *)
(* skipped.                                                                *)
LoadDir(registry, files) ==
  RegisterMany(registry, SetToSeq(files))

(* What a profile may set: the fields of TLSFingerprint.  The User-Agent   *)
(* is one of them and never one of its headers.                            *)
ProfileOptions == {"ja3", "ja4r", "http2_fingerprint", "quic_fingerprint", "user_agent",
                   "header_order", "disable_grease", "force_http1", "force_http3"}

IsProfile(p) ==
  /\ p # None
  /\ p = [name |-> p.name, opts |-> p.opts, headers |-> p.headers]
  /\ p.opts = [o \in DOMAIN p.opts |-> p.opts[o]] /\ DOMAIN p.opts \subseteq ProfileOptions
  /\ p.headers # None =>
       /\ p.headers = [n \in DOMAIN p.headers |-> p.headers[n]]
       /\ \A n \in DOMAIN p.headers : n \in DOMAIN Lower /\ Lower[n] # "user-agent"

(* Files are lists whose entries are profiles or are passed over, the      *)
(* default file as it is shipped names no profile twice, and the plugin    *)
(* directory holds finitely many files.                                    *)
FromCaptures == IF TrackmeFile = None THEN << >>
                ELSE [i \in DOMAIN TrackmeFile |-> NormalizeTrackme(TrackmeFile[i])]

ASSUME FilesAssumption ==
  /\ \A p \in Profiles : IsProfile(p)
  /\ \A items \in {DefaultItems, FromCaptures, IF ExtraFile = None THEN << >> ELSE ExtraFile.items} :
       /\ items \in Seq(ToSet(items))
       /\ \A p \in ToSet(items) : p = None \/ IsProfile(p)
  /\ ExtraFile # None => ExtraFile.torn \in BOOLEAN
  /\ \A p, q \in ToSet(DefaultItems) : p # None /\ q # None /\ p.name = q.name => p = q
  /\ IsFiniteSet(PluginFiles) /\ \A p \in PluginFiles : p = None \/ IsProfile(p)
  /\ MaxRegistryOps \in Nat

-----------------------------------------------------------------------------
(* Lookups.                                                                *)
VersionLess(v, w) ==
  \/ \E i \in 1..Len(w) : /\ i <= Len(v) => v[i] < w[i]
                          /\ \A j \in 1..(i - 1) : j <= Len(v) /\ v[j] = w[j]

ByFamily(registry, family, platform) ==
  {registry[n] : n \in {m \in DOMAIN registry :
     m.family = family /\ (platform # None => m.platform = platform)}}

Candidates(registry, family, platform) ==
  IF family # None THEN ByFamily(registry, family, platform)
  ELSE {registry[n] : n \in {m \in DOMAIN registry :
          platform # None => m.platform = platform}}

(* latest: none of the candidates has a higher version.                    *)
Latest(registry, family, platform) ==
  LET all == Candidates(registry, family, platform)
  IN  {p \in all : \A q \in all : ~VersionLess(p.name.version, q.name.version)}

-----------------------------------------------------------------------------
RegistryInit ==
  /\ profiles = Empty /\ exports = Empty
  /\ defaultFile = File(DefaultItems)
  /\ saving = FALSE /\ process = "down" /\ registryOps = 0
  /\ LET listed == ToSet(DefaultItems) \ {None}
     IN  persisted = [n \in {p.name : p \in listed} |-> CHOOSE p \in listed : p.name = n]

RegistryCall ==
  /\ process = "running" /\ ~saving
  /\ registryOps < MaxRegistryOps
  /\ registryOps' = registryOps + 1

(* The import: the default file first, outside of any try; then the extra  *)
(* file and the captures, whose failures are only reported.  Loading the   *)
(* captures saves the registry to the default file.                        *)
Import ==
  /\ process = "down"
  /\ IF defaultFile.torn
     THEN /\ process' = "broken"
          /\ UNCHANGED <<profiles, exports, saving, defaultFile>>
     ELSE LET builtin == LoadFromFile(Empty, defaultFile, TRUE)
              extra == IF ExtraFile = None THEN builtin
                       ELSE LoadFromFile(builtin, ExtraFile, FALSE)
              all == IF TrackmeFile = None THEN extra ELSE LoadTrackme(extra, TrackmeFile)
          IN  /\ process' = "running"
              /\ profiles' = all
              /\ exports' = Exports(all)
              /\ saving' = (TrackmeFile # None)
              /\ defaultFile' = IF TrackmeFile # None THEN TornFile ELSE defaultFile
  /\ UNCHANGED <<registryOps, persisted>>

Register(p) == /\ RegistryCall
               /\ profiles' = Put(profiles, p.name, p)
               /\ UNCHANGED <<exports, defaultFile, saving, process, persisted>>

Unregister(n) == /\ RegistryCall
                 /\ profiles' = Without(profiles, n)
                 /\ UNCHANGED <<exports, defaultFile, saving, process, persisted>>

ClearRegistry == /\ RegistryCall
                 /\ profiles' = Empty
                 /\ UNCHANGED <<exports, defaultFile, saving, process, persisted>>

(* load_from_file of the program, on the default file or the extra one.    *)
Reload(clear) ==
  /\ RegistryCall
  /\ profiles' \in {LoadFromFile(profiles, f, clear) : f \in {defaultFile, ExtraFile} \ {None}}
  /\ UNCHANGED <<exports, defaultFile, saving, process, persisted>>

LoadPlugins ==
  /\ RegistryCall
  /\ profiles' = LoadDir(profiles, PluginFiles)
  /\ UNCHANGED <<exports, defaultFile, saving, process, persisted>>

(* save_to_file on the default file: write_text truncates it and then      *)
(* writes it; a process that dies between the two leaves it torn.          *)
SaveBegin == /\ RegistryCall
             /\ saving' = TRUE /\ defaultFile' = TornFile
             /\ UNCHANGED <<profiles, exports, process, persisted>>

SaveEnd == /\ process = "running" /\ saving
           /\ saving' = FALSE
           /\ defaultFile' = File(SavedItems(profiles))
           /\ persisted' = profiles
           /\ UNCHANGED <<profiles, exports, process, registryOps>>

(* The process ends, killed or not, and what it had in memory is gone.     *)
Exit == /\ process \in {"running", "broken"}
        /\ process' = "down"
        /\ profiles' = Empty /\ exports' = Empty /\ saving' = FALSE
        /\ UNCHANGED <<defaultFile, registryOps, persisted>>

RegistryNext ==
  \/ Import
  \/ \E p \in Profiles : Register(p) \/ Unregister(p.name)
  \/ ClearRegistry
  \/ \E clear \in BOOLEAN : Reload(clear)
  \/ LoadPlugins
  \/ SaveBegin
  \/ SaveEnd
  \/ Exit
=============================================================================
