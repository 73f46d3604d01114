-------------------------------- MODULE Keyring --------------------------------
(***************************************************************************)
(* internal/registry/credentialprovider and keychain.go: which credentials  *)
(* of the pull secrets apply to an image, and what the requests of Execute  *)
(* (Probe.tla) are sent with, in their order.                               *)
(*                                                                          *)
(*   a location, a name   [host, port, path]                                *)
(*   an entry             [location, cred]                                  *)
(*   a secret             [kind, entries]                                   *)
(*                                                                          *)
(* Words (parts of a host, of a path) are numbers in the order of the       *)
(* strings they stand for; the entries of a secret are a sequence, any      *)
(* order in which Go may visit the map. A path ends with Empty when its     *)
(* string ends with a slash; port 0 is no port.                             *)
(***************************************************************************)
EXTENDS Orders

CONSTANTS
    DockerIO,       \* docker.io
    IndexDockerIO,  \* index.docker.io, where Docker keeps its own credentials
    Version,        \* the words v1 and v2
    Begins          \* <<w, x>>: the string of x begins with that of w

Empty == 0
AnyPart == 1            \* the pattern *, which sorts before everything else
Dot == 2
Slash == 3
Colon == 4          \* after the digits, before the letters

IsLocation(l) == l.host \in Seq(Int) /\ l.port \in Int /\ l.path \in Seq(Int)
IsDockerConfig(s) == /\ IsSequence(s.entries)
                     /\ \A e \in ToSet(s.entries) : IsLocation(e.location)

\* Add: /v1/ and /v2/ are the same as the host, and so is /.
Key(location) ==
    LET versioned == Len(location.path) > 1 /\ Head(location.path) \in Version
        path == IF versioned THEN Tail(location.path) ELSE location.path
    IN  [host |-> location.host, port |-> location.port,
         path |-> IF path = <<Empty>> THEN << >> ELSE path]

\* The string of a key, cut before each separator: what separates and the word
\* that follows. The first word of a host has nothing before it, in any key.
Text(key) ==
    [k \in DOMAIN key.host |-> <<Dot, key.host[k]>>]
        \o (IF key.port = 0 THEN << >> ELSE <<<<Colon, key.port>>>>)
        \o [k \in DOMAIN key.path |-> <<Slash, key.path[k]>>]

\* The order of strings.
PieceLess(p, q) == p[1] < q[1] \/ (p[1] = q[1] /\ p[2] < q[2])
Less(s, t) == \/ IsStrictPrefix(s, t)
              \/ \E k \in DOMAIN s \cap DOMAIN t :
                     /\ PieceLess(s[k], t[k])
                     /\ \A j \in 1 .. k - 1 : s[j] = t[j]

\* The places of the entries in the order of the index, the reverse of that of
\* their keys; creds[key] holds those of one key, in the order they were added.
KeyOf(entry) == Key(entry.location)
Indexed(s, t, i, j) == Less(t, s) \/ (s = t /\ i < j)

\* Mutant: the index in its own order.
SortedIndex(entries) ==
    {p \in (DOMAIN entries) \X DOMAIN entries :
        Indexed(Text(KeyOf(entries[p[2]])), Text(KeyOf(entries[p[1]])), p[1], p[2])}

Index(entries) ==
    {p \in (DOMAIN entries) \X DOMAIN entries :
        Indexed(Text(KeyOf(entries[p[1]])), Text(KeyOf(entries[p[2]])), p[1], p[2])}

\* URLsMatch. Paths are compared as strings: the last word may go on.
PathBegins(path, prefix) ==
    \/ prefix = << >>
    \/ /\ Len(prefix) <= Len(path)
       /\ \A k \in 1 .. Len(prefix) - 1 : path[k] = prefix[k]
       /\ LET w == Last(prefix)
              x == path[Len(prefix)]
          IN  w \in {Empty, x} \/ <<w, x>> \in Begins

URLsMatch(glob, name) == /\ glob.port = name.port
                         /\ Len(glob.host) = Len(name.host)
                         /\ PathBegins(name.path, glob.path)
                         /\ \A k \in DOMAIN glob.host : glob.host[k] \in {AnyPart, name.host[k]}

\* Docker Hub, under either of its names, and names without a domain.
AtDockerHub(name) == name.host \in {DockerIO, IndexDockerIO} /\ name.port = 0
IsDefaultRegistryMatch(name) == AtDockerHub(name) \/ (Len(name.host) = 1 /\ name.port = 0)

\* Lookup: the credentials of every key that matches; those of Docker Hub,
\* kept under another name, only when no key does.
DefaultKey == [host |-> IndexDockerIO, port |-> 0, path |-> << >>]
Lookup(entries, name) ==
    LET matching == {k \in DOMAIN entries : URLsMatch(KeyOf(entries[k]), name)}
        default == {k \in DOMAIN entries : KeyOf(entries[k]) = DefaultKey}
        chosen == IF matching # {} THEN matching
                  ELSE IF IsDefaultRegistryMatch(name) THEN default
                  ELSE {}
    IN  InOrder([k \in chosen |-> entries[k]], Index(entries))

\* secretsToTrackedDockerConfigs: secrets of another type are passed over; one
\* that cannot be decoded is an error.
Readable(secrets) == \A s \in ToSet(secrets) : s.kind # "garbled"
Entries(secrets) ==
    LET rows == [k \in DOMAIN secrets |->
                    IF secrets[k].kind = "dockerconfig" THEN secrets[k].entries ELSE << >>]
    IN  InOrder([p \in PlacesIn(rows) |-> rows[p[1]][p[2]]], RowByRow(PlacesIn(rows)))

\* External: the names that two libraries give a repository. For Docker Hub
\* reference.ParseNormalizedNamed says docker.io, go-containerregistry says
\* index.docker.io.
Named(repository) ==
    IF repository.host = IndexDockerIO /\ repository.port = 0
    THEN [repository EXCEPT !.host = DockerIO] ELSE repository
Target(repository) ==
    IF repository.host = DockerIO /\ repository.port = 0
    THEN [repository EXCEPT !.host = IndexDockerIO] ELSE repository

\* authConfigKeychain.Resolve: what a request for the target is sent with. The
\* credential is for one repository, known by its first name.
Anonymous == [cred |-> "anonymous"]
Resolve(entry, repositoryName, target) ==
    IF target # repositoryName THEN Anonymous ELSE entry

\* GetKeychains, Execute's recourse to the default keychain, and what each of
\* the keychains sends. A credential is told from the others by its entry.
DefaultKeychain == [cred |-> "default"]
Keychains(secrets, repository) ==
    LET name == Named(repository)
        creds == Lookup(Entries(secrets), name)
    IN  IF creds = << >> THEN <<DefaultKeychain>>
        ELSE [k \in DOMAIN creds |-> Resolve(creds[k], name, Target(repository))]
=============================================================================
