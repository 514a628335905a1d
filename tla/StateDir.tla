-------------------------------- MODULE StateDir --------------------------------
(***************************************************************************)
(* The state directory of the HTTP transport (loadOrCreateToken,           *)
(* loadOrCreateCert): the bearer token and the self-signed certificate     *)
(* with its key, created by the first server and loaded by the later ones. *)
(* Nothing locks the directory: servers may start at the same time, for    *)
(* two vaults say, and a start may be killed or fail anywhere.             *)
(*                                                                         *)
(* A secret is named by the start that generated it.  os.WriteFile opens   *)
(* and truncates the file, and then writes it: in between it is Torn.  The *)
(* texts are short, so that two writers of one file do not mix them.       *)
(***************************************************************************)
EXTENDS Naturals

CONSTANTS
    Server,     \* runs of the server program
    MaxFaults,  \* bound on the starts that are killed or meet an I/O error
    Env,        \* a token given by OBSIDIAN_AUTH_TOKEN
    Absent,     \* no such file
    Torn,       \* an empty file, or a part of one
    Unset       \* nothing yet

Files    == {"token", "key", "cert"}
Contents == Server \cup {Absent, Torn}

ASSUME StateDirConstants ==
    /\ MaxFaults \in Nat
    /\ Absent \notin Server /\ Torn \notin Server /\ Env \notin Server /\ Unset \notin Server
    /\ Absent # Torn /\ Unset \notin {Absent, Torn} /\ Env \notin {Absent, Torn, Unset}

VARIABLES
    file,       \* the files of the directory
    stage,      \* where each server is
    target,     \* the file it is writing
    token,      \* the token it will compare with
    cert,       \* the certificate it has read or made
    key,        \* the key to it
    had,        \* the files that were there when it started (history)
    overlap,    \* have two starts ever overlapped? (history)
    faults

stateVars == <<file, stage, target, token, cert, key, had, overlap, faults>>

Starting == {"token", "cert", "key", "open", "fill"}
Ended    == {"failed", "gone"}

StateInit ==
    /\ file = [f \in Files |-> Absent]
    /\ stage = [s \in Server |-> "idle"]
    /\ target = [s \in Server |-> "token"]
    /\ token = [s \in Server |-> Unset]
    /\ cert = [s \in Server |-> Unset]
    /\ key = [s \in Server |-> Unset]
    /\ had = [s \in Server |-> {}]
    /\ overlap = FALSE
    /\ faults = 0

GoTo(s, step) == stage' = [stage EXCEPT ![s] = step]

\* A token in the environment takes precedence over the file.
Begin(s) ==
    /\ stage[s] = "idle"
    /\ \/ GoTo(s, "token") /\ UNCHANGED token
       \/ GoTo(s, "cert") /\ token' = [token EXCEPT ![s] = Env]
    /\ had' = [had EXCEPT ![s] = {f \in Files : file[f] # Absent}]
    /\ overlap' = (overlap \/ \E other \in Server : stage[other] \in Starting)
    /\ UNCHANGED <<file, target, cert, key, faults>>

Create(s, f) ==
    /\ target' = [target EXCEPT ![s] = f]
    /\ GoTo(s, "open")

------------------------------------------------------------------------------
\* loadOrCreateToken and loadOrCreateCert

ReadToken_BugAbsent(s) ==   \* takes a missing file for an empty one
    /\ stage[s] = "token"
    /\ token' = [token EXCEPT ![s] = file["token"]]
    /\ GoTo(s, "cert")
    /\ UNCHANGED <<file, target, cert, key, had, overlap, faults>>

\* Whatever the token file holds is the token.
ReadToken(s) ==
    /\ stage[s] = "token"
    /\ \/ /\ file["token"] = Absent
          /\ Create(s, "token")
          /\ UNCHANGED token
       \/ /\ file["token"] # Absent
          /\ token' = [token EXCEPT ![s] = file["token"]]
          /\ GoTo(s, "cert")
          /\ UNCHANGED target
    /\ UNCHANGED <<file, cert, key, had, overlap, faults>>

WriteOrder_Bug == [first |-> "cert", second |-> "key"]

\* The key is written first: a certificate is there only after its key.
WriteOrder == [first |-> "key", second |-> "cert"]

Regenerate(s) == Create(s, WriteOrder.first)

\* tls.LoadX509KeyPair reads the certificate, then the key, and compares them; if
\* either is missing both are generated.
ReadCert(s) ==
    /\ stage[s] = "cert"
    /\ \/ /\ file["cert"] = Absent
          /\ Regenerate(s)
          /\ UNCHANGED cert
       \/ /\ file["cert"] # Absent
          /\ cert' = [cert EXCEPT ![s] = file["cert"]]
          /\ GoTo(s, "key")
          /\ UNCHANGED target
    /\ UNCHANGED <<file, token, key, had, overlap, faults>>

Loads_Bug(c, k) ==          \* each file is checked by itself
    c \in Server /\ k \in Server

Loads(c, k) == c \in Server /\ k = c

ReadKey(s) ==
    /\ stage[s] = "key"
    /\ \/ /\ file["key"] = Absent
          /\ Regenerate(s)
          /\ UNCHANGED key
       \/ /\ file["key"] # Absent
          /\ key' = [key EXCEPT ![s] = file["key"]]
          /\ GoTo(s, IF Loads(cert[s], file["key"]) THEN "serving" ELSE "failed")
          /\ UNCHANGED target
    /\ UNCHANGED <<file, token, cert, had, overlap, faults>>

------------------------------------------------------------------------------
\* os.WriteFile

Open(s) ==
    /\ stage[s] = "open"
    /\ file' = [file EXCEPT ![target[s]] = Torn]
    /\ GoTo(s, "fill")
    /\ UNCHANGED <<target, token, cert, key, had, overlap, faults>>

FillToken(s) ==
    /\ stage[s] = "fill" /\ target[s] = "token"
    /\ file' = [file EXCEPT !["token"] = s]
    /\ token' = [token EXCEPT ![s] = s]
    /\ GoTo(s, "cert")
    /\ UNCHANGED <<target, cert, key, had, overlap, faults>>

FillFirst(s) ==
    /\ stage[s] = "fill" /\ target[s] = WriteOrder.first
    /\ file' = [file EXCEPT ![target[s]] = s]
    /\ Create(s, WriteOrder.second)
    /\ UNCHANGED <<token, cert, key, had, overlap, faults>>

\* The pair is served from memory.
FillSecond(s) ==
    /\ stage[s] = "fill" /\ target[s] = WriteOrder.second
    /\ file' = [file EXCEPT ![target[s]] = s]
    /\ cert' = [cert EXCEPT ![s] = s]
    /\ key' = [key EXCEPT ![s] = s]
    /\ GoTo(s, "serving")
    /\ UNCHANGED <<target, token, had, overlap, faults>>

------------------------------------------------------------------------------
\* Failures and ends

\* A file cannot be read, opened or written: Run returns the error.
IOFails(s) ==
    /\ faults < MaxFaults /\ stage[s] \in Starting
    /\ faults' = faults + 1
    /\ GoTo(s, "failed")
    /\ UNCHANGED <<file, target, token, cert, key, had, overlap>>

Killed(s) ==
    /\ faults < MaxFaults /\ stage[s] \in Starting
    /\ faults' = faults + 1
    /\ GoTo(s, "gone")
    /\ UNCHANGED <<file, target, token, cert, key, had, overlap>>

Shutdown(s) ==
    /\ stage[s] = "serving"
    /\ GoTo(s, "gone")
    /\ UNCHANGED <<file, target, token, cert, key, had, overlap, faults>>

Load(s)  == ReadToken(s) \/ ReadCert(s) \/ ReadKey(s)
Write(s) == Open(s) \/ FillToken(s) \/ FillFirst(s) \/ FillSecond(s)

StateNext == \E s \in Server : \/ Begin(s) \/ Load(s) \/ Write(s)
                          \/ IOFails(s) \/ Killed(s) \/ Shutdown(s)

StateSpec == StateInit /\ [][StateNext]_stateVars

------------------------------------------------------------------------------
\* Properties

\* A file is absent, torn or the work of one server; a server loads and writes, and
\* serves only with a token and a pair.
StateTypeOK ==
    /\ file \in [Files -> Contents]
    /\ stage \in [Server -> Starting \cup Ended \cup {"idle", "serving"}]
    /\ target \in [Server -> Files]
    /\ token \in [Server -> Server \cup {Torn, Env, Unset}]
    /\ cert \in [Server -> Server \cup {Torn, Unset}]
    /\ key \in [Server -> Server \cup {Torn, Unset}]
    /\ had \in [Server -> SUBSET Files]
    /\ overlap \in BOOLEAN
    /\ faults \in 0..MaxFaults

\* A server never listens with a certificate that is not its key's, whatever other
\* servers wrote between its reads of the two files.
PairsMatch == \A s \in Server : stage[s] = "serving" => cert[s] \in Server /\ key[s] = cert[s]

\* Servers that start one after the other are one server to their clients: all
\* those that serve compare with the token on disk and show the certificate on
\* disk, also after starts that were killed.
OneIdentity ==
    ~ overlap => \A s \in Server : stage[s] = "serving" =>
        /\ token[s] # Env => token[s] = file["token"]
        /\ cert[s] = file["cert"] /\ key[s] = file["key"]

\* A server that serves does so with a matching pair and, unless starts overlapped,
\* with the one identity on disk.
ServingIsSound == PairsMatch /\ OneIdentity

\* After starts that did not overlap and whose last did not stop in the write of the
\* certificate, the next one gets its pair: the one on disk loads, or a part of it is
\* missing and both are generated again.  It is about the pair only: a start killed
\* between the creation and the write of the token leaves an empty one (token.go:51),
\* with which the next starts as well.
NextStartSucceeds ==
    ~ overlap /\ (\A s \in Server : stage[s] \notin Starting) /\ file["cert"] # Torn =>
        Absent \in {file["cert"], file["key"]} \/ Loads(file["cert"], file["key"])

\* A server that finds its files there when it starts never writes them, not even
\* when another server is in the middle of writing them.
ExistingFilesAreKept ==
    \A s \in Server : stage[s] \in {"open", "fill"} =>
        IF target[s] = "token" THEN "token" \notin had[s]
                               ELSE ~ {"key", "cert"} \subseteq had[s]

===============================================================================
