------------------------------ MODULE Keypunk ------------------------------
(***************************************************************************)
(* keypunkd, the key daemon: the two files of its seed store, the requests *)
(* that write and read them, and the two-step signing of an artifact       *)
(* (PreviewArtifact, then AuthorizeArtifact).                              *)
(*                                                                         *)
(* The daemon is one actor, so a request runs to its end before the next   *)
(* starts; the only request with two durable effects, storing a seed, is   *)
(* two steps here because the process can die between them.  The key pair  *)
(* of the daemon lives in memory: `boot` numbers the processes, hence the  *)
(* key pairs.  An IPC client registers one fresh key with one process and  *)
(* never reconnects, so a client is a key and `session` says to which      *)
(* process it was registered.                                              *)
(*                                                                         *)
(* Encryption under the shared key of a client and a boot is modelled by   *)
(* what it lets keypunkd conclude: a preview's signature opens exactly for *)
(* the pair it was made for, and carries the digest of artifact, summary   *)
(* (a function of the artifact) and path.  A stored blob opens with        *)
(* exactly the password it was encrypted with.                             *)
(*                                                                         *)
(* Requests that only read (GetEncryptionKey, VerifyPassword, the viewing  *)
(* key exports) change nothing; what they read is DecryptSeed.  A request  *)
(* that fails before its first write changes nothing and is a stutter.     *)
(***************************************************************************)
EXTENDS Naturals

CONSTANTS Clients,    \* IPC client keys, one per connection ever made
          Artifacts,  \* raw artifacts that reach the daemon
          Parsable,   \* those some registered protocol parses (and can sign)
          Paths,      \* derivation paths
          Seeds,      \* BIP39 seeds; a seed and its mnemonic are one value
          Passwords,
          None,
          MaxBoots    \* bound on the number of keypunkd processes

Blob == [seed : Seeds, pw : Passwords]
NoBlob == [seed |-> None, pw |-> None]
OptBlob == Blob \cup {NoBlob}

Preview == [by : 1..MaxBoots, to : Clients, artifact : Artifacts, path : Paths]
Signature == [by : 1..MaxBoots, to : Clients, artifact : Artifacts,
              path : Paths, seed : Seeds]

ASSUME KeypunkAssumption ==
    /\ Parsable \subseteq Artifacts
    /\ MaxBoots \in Nat \ {0}
    /\ None \notin Seeds \cup Signature

VARIABLES boot,         \* number of the running keypunkd process
          session,      \* session[c]: process c registered with, 0 if none
          seedFile,     \* seed.enc: the seed and the password that opens it
          mnemonicFile, \* seed.mnemonic.enc, likewise
          writing,      \* blob stored in seed.enc but not yet in the other
          acked,        \* last blob whose storage the client was told of,
                        \* while no later request touched the store
          previews,     \* preview replies ever handed out
          signature     \* last signature handed out

vars == <<boot, session, seedFile, mnemonicFile, writing, acked, previews,
          signature>>

Stored(blob) == blob.seed # None

Init == /\ boot = 1
        /\ session = [c \in Clients |-> 0]
        /\ seedFile = NoBlob
        /\ mnemonicFile = NoBlob
        /\ writing = NoBlob
        /\ acked = NoBlob
        /\ previews = {}
        /\ signature = None

-----------------------------------------------------------------------------
(* Handlers                                                                *)

\* c's socket is open and the actor is between two requests.
Serving(c) == session[c] = boot /\ ~Stored(writing)

\* Key exchange of a new connection.
RegisterClient(c) ==
    /\ session[c] = 0
    /\ session' = [session EXCEPT ![c] = boot]
    /\ UNCHANGED <<boot, seedFile, mnemonicFile, writing, acked, previews,
                   signature>>

\* SeedStore::write: seed.enc is replaced by a rename, whatever it held.
WriteSeed(s, pw) ==
    /\ seedFile' = [seed |-> s, pw |-> pw]
    /\ writing' = [seed |-> s, pw |-> pw]
    /\ acked' = NoBlob
    /\ UNCHANGED <<boot, session, mnemonicFile, previews, signature>>

\* A fresh phrase: never one that is already on disk.
GenerateSeed(c, pw) ==
    /\ Serving(c)
    /\ \E s \in Seeds \ {seedFile.seed, mnemonicFile.seed} : WriteSeed(s, pw)

\* A phrase the user typed: any.
RestoreSeed(c, s, pw) == Serving(c) /\ WriteSeed(s, pw)

\* SeedStore::write_mnemonic, then the reply.
WriteMnemonic ==
    /\ Stored(writing)
    /\ mnemonicFile' = writing
    /\ acked' = writing
    /\ writing' = NoBlob
    /\ UNCHANGED <<boot, session, seedFile, previews, signature>>

\* Mutant: the error of write_mnemonic is swallowed and success is answered.
WriteMnemonicFailsUnnoticed ==
    /\ Stored(writing)
    /\ acked' = writing
    /\ writing' = NoBlob
    /\ UNCHANGED <<boot, session, seedFile, mnemonicFile, previews, signature>>

\* write_mnemonic returns an IO error: an error reply, seed.enc stays new.
WriteMnemonicFails ==
    /\ Stored(writing)
    /\ writing' = NoBlob
    /\ UNCHANGED <<boot, session, seedFile, mnemonicFile, acked, previews,
                   signature>>

\* PreviewArtifact: the reply carries the digest sealed for this client.
PreviewArtifact(c, a, path) ==
    /\ Serving(c)
    /\ a \in Parsable
    /\ previews' = previews \cup
         {[by |-> boot, to |-> c, artifact |-> a, path |-> path]}
    /\ UNCHANGED <<boot, session, seedFile, mnemonicFile, writing, acked,
                   signature>>

\* Mutant: the digest leaves the derivation path out.
VerifiesAnyPath(p, c, a, path) ==
    a \in Parsable => p.by = boot /\ p.to = c /\ p.artifact = a

\* The seal opens under this boot's key and c's key and holds the digest of
\* what is to be signed.  An artifact nothing parses is not verified at all.
Verifies(p, c, a, path) ==
    a \in Parsable =>
        p.by = boot /\ p.to = c /\ p.artifact = a /\ p.path = path

\* Mutant: the seed is derived anew from the stored phrase.
DecryptSeedFromPhrase(pw) ==
    IF mnemonicFile.pw = pw THEN mnemonicFile.seed ELSE None

\* The seed a password opens, None if there is none or it does not open.
DecryptSeed(pw) == IF seedFile.pw = pw THEN seedFile.seed ELSE None

\* The phrase ExportMnemonic returns for a password.
ExportMnemonic(pw) == IF mnemonicFile.pw = pw THEN mnemonicFile.seed ELSE None

\* Mutant: a password that does not open the seed is not an error.
AuthorizeArtifactAnyPassword(c, a, path, p, pw) ==
    /\ Serving(c)
    /\ Verifies(p, c, a, path)
    /\ a \in Parsable
    /\ signature' = [by |-> boot, to |-> c, artifact |-> a, path |-> path,
                     seed |-> DecryptSeed(pw)]
    /\ UNCHANGED <<boot, session, seedFile, mnemonicFile, writing, acked,
                   previews>>

\* AuthorizeArtifact with the signature of preview p.
AuthorizeArtifact(c, a, path, p, pw) ==
    /\ Serving(c)
    /\ Verifies(p, c, a, path)
    /\ DecryptSeed(pw) # None
    /\ a \in Parsable
    /\ signature' = [by |-> boot, to |-> c, artifact |-> a, path |-> path,
                     seed |-> DecryptSeed(pw)]
    /\ UNCHANGED <<boot, session, seedFile, mnemonicFile, writing, acked,
                   previews>>

\* The process dies at any point and is started again: new key pair.
Restart ==
    /\ boot < MaxBoots
    /\ boot' = boot + 1
    /\ writing' = NoBlob
    /\ UNCHANGED <<session, seedFile, mnemonicFile, acked, previews, signature>>

Next ==
    \/ \E c \in Clients : RegisterClient(c)
    \/ \E c \in Clients, pw \in Passwords : GenerateSeed(c, pw)
    \/ \E c \in Clients, s \in Seeds, pw \in Passwords : RestoreSeed(c, s, pw)
    \/ WriteMnemonic
    \/ WriteMnemonicFails
    \/ \E c \in Clients, a \in Artifacts, path \in Paths :
         PreviewArtifact(c, a, path)
    \/ \E c \in Clients, a \in Artifacts, path \in Paths, p \in previews,
          pw \in Passwords : AuthorizeArtifact(c, a, path, p, pw)
    \/ Restart

Spec == Init /\ [][Next]_vars

-----------------------------------------------------------------------------
(* Properties                                                              *)

\* Every variable stays in its set.
TypeOK ==
    /\ boot \in 1..MaxBoots
    /\ session \in [Clients -> 0..MaxBoots]
    /\ seedFile \in OptBlob
    /\ mnemonicFile \in OptBlob
    /\ writing \in OptBlob
    /\ acked \in OptBlob
    /\ previews \subseteq Preview
    /\ signature \in Signature \cup {None}

\* AuthorizeArtifact never signs anything but an artifact that the same
\* process previewed, for the same client, with the same path: a preview of
\* another artifact, path or client, or of an earlier process, is useless.
SignedWasPreviewed ==
    signature # None =>
        [by |-> signature.by, to |-> signature.to,
         artifact |-> signature.artifact, path |-> signature.path] \in previews

\* Once GenerateSeed or RestoreSeed was answered, both files hold that seed
\* under that password until the next such request, through any restart.
AckedIsStored ==
    Stored(acked) => seedFile = acked /\ mnemonicFile = acked

-----------------------------------------------------------------------------
(* Refinement: the sealed previews of the running process are the table of *)
(* approvals of the abstract service.                                      *)

Current == {p \in previews : p.by = boot}
Approvals == {[to |-> p.to, artifact |-> p.artifact, path |-> p.path] :
                p \in Current}

Service == INSTANCE SigningService
             WITH approved <- Approvals,
                  wallet <- seedFile.seed,
                  signature <-
                    IF signature = None THEN None
                    ELSE [to |-> signature.to, artifact |-> signature.artifact,
                          path |-> signature.path, seed |-> signature.seed]

\* keypunkd implements the signing service: every signature is for something
\* its process showed to that client, with the seed of the moment.
ImplementsService == Service!SSpec
=============================================================================
