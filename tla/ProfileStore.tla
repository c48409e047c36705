---------------------------- MODULE ProfileStore ----------------------------
(***************************************************************************)
(* tui/internal/config, tui/internal/sharelink and the profile tab of      *)
(* tui/app.go: the profiles in the memory of a running TUI, the file they  *)
(* are saved to and the temporary file Save renames.  A process may die    *)
(* between any two system calls; a user may run more than one TUI and may  *)
(* leave a file that does not parse.  An address, its credentials and the  *)
(* REALITY keys are one value; a share link is the record of its parts.    *)
(***************************************************************************)
EXTENDS Naturals, Sequences, SequencesExt

CONSTANTS
  Instances,     \* TUI processes of one user
  Words,         \* names, hosts and fingerprints
  Links,         \* what a user may paste: records of link parts
  Files,         \* the stores a user may find or write: sequences of profiles
  MaxProfiles    \* bound: profiles in a store

ASSUME MaxProfilesNat == MaxProfiles \in Nat

(* A profile; the fingerprint is part of its REALITY section.  Its local   *)
(* settings are the listeners, insecure_concurrency (0 for none), whether  *)
(* the hop to the server uses TLS, the system proxy and TUN, which may be  *)
(* without a gateway, subnet or MTU.                                       *)
Local ==
  [socks : Words, http : Words, concurrency : Nat, tls : {"nil", "on", "off"},
   proxy : {"nil", "off", "on"}, tun : {"nil", "bare", "filled"}]
Profile ==
  {p \in [name : Words, server : Words, port : Nat, reality : BOOLEAN, fingerprint : Words,
          local : Local] : p.reality \/ p.fingerprint = ""}

(* A link has no place for any of them.                                    *)
ShareLink ==
  [scheme : {"naivereal", "naive+https"}, host : Words, port : Nat, name : Words,
   keys : BOOLEAN, fp : Words]

ASSUME StoreTexts ==
  {"", "chrome", "socks", "http"} \subseteq Words /\ Links \subseteq ShareLink /\ Files \subseteq Seq(Profile)

VARIABLES
  mem,        \* m.store of each process
  ui,         \* "off", "ready", or the next system call of Save
  loaded,     \* config.Load succeeded in newModel
  cursor,     \* m.cursor, from 1
  msg,        \* m.msg: what the last command reported
  storeFile,  \* profiles.json
  tmp,        \* profiles.json.tmp
  clipboard,  \* the share link in the clipboard
  copied      \* the profile that link was built from

storeVars == <<mem, ui, loaded, cursor, msg, storeFile, tmp, clipboard, copied>>

(* A file: absent, whole with a store, or one that json.Unmarshal refuses, *)
(* which still holds what its author or an interrupted writer put there.   *)
Absent == [kind |-> "absent", active |-> "", profiles |-> <<>>]
Whole(s) == [kind |-> "whole", active |-> s.active, profiles |-> s.profiles]
Torn == [kind |-> "torn", active |-> "", profiles |-> <<>>]

Empty == [active |-> "", profiles |-> <<>>, defaults |-> FALSE]

-----------------------------------------------------------------------------
(* applyDefaults of a profile: the port, the local settings, the REALITY   *)
(* fingerprint.                                                            *)
localDefaults(x) ==
  [x EXCEPT !.socks = IF @ = "" THEN "socks" ELSE @,
            !.http = IF @ = "" THEN "http" ELSE @,
            !.concurrency = IF @ = 0 THEN 1 ELSE @,
            !.tun = IF @ = "bare" THEN "filled" ELSE @]
withDefaults(p) ==
  [p EXCEPT !.port = IF @ = 0 THEN 443 ELSE @,
            !.local = localDefaults(@),
            !.fingerprint = IF p.reality /\ @ = "" THEN "chrome" ELSE @]

Load(f) == [active |-> f.active, defaults |-> TRUE,
            profiles |-> [i \in DOMAIN f.profiles |-> withDefaults(f.profiles[i])]]

(* Active: the first profile of the active name, else the first.           *)
Active(s) ==
  LET named == {i \in DOMAIN s.profiles : s.profiles[i].name = s.active}
  IN IF named = {} THEN s.profiles[1] ELSE s.profiles[CHOOSE i \in named : \A j \in named : i <= j]

(* sharelink.Parse: a link without port, fragment or fingerprint gets the  *)
(* default; one with a port out of range or without host is refused.       *)
MaxPort == 65535
NewLocal == [socks |-> "socks", http |-> "http", concurrency |-> 1, tls |-> "nil",
             proxy |-> "nil", tun |-> "nil"]
ValidPorts == 0..MaxPort
ParseOk(l) == l.host # "" /\ l.port \in ValidPorts /\ (l.scheme = "naivereal" => l.keys)
Parse(l) ==
  [name |-> IF l.name = "" THEN l.host ELSE l.name, server |-> l.host,
   port |-> IF l.port = 0 THEN 443 ELSE l.port, reality |-> l.scheme = "naivereal",
   fingerprint |-> IF l.scheme # "naivereal" THEN "" ELSE IF l.fp = "" THEN "chrome" ELSE l.fp,
   local |-> NewLocal]

(* Mutant: a fingerprint is never written.                                 *)
BuildPlain(p) ==
  [scheme |-> IF p.reality THEN "naivereal" ELSE "naive+https", host |-> p.server,
   port |-> IF p.port \in {0, 443} THEN 0 ELSE p.port, name |-> p.name,
   keys |-> p.reality, fp |-> ""]

(* sharelink.Build: what is the default is left out (0 is no port), and so *)
(* are the local settings.                                                 *)
BuildOk(p) == p.server # "" /\ p.port \in ValidPorts
Build(p) ==
  [scheme |-> IF p.reality THEN "naivereal" ELSE "naive+https", host |-> p.server,
   port |-> IF p.port \in {0, 443} THEN 0 ELSE p.port, name |-> p.name,
   keys |-> p.reality, fp |-> IF p.fingerprint = "chrome" THEN "" ELSE p.fingerprint]

NoLink == [scheme |-> "none"]

StoreInit ==
  /\ mem = [i \in Instances |-> Empty]
  /\ ui = [i \in Instances |-> "off"]
  /\ loaded = [i \in Instances |-> FALSE]
  /\ cursor = [i \in Instances |-> 1]
  /\ msg = [i \in Instances |-> ""]
  /\ \/ storeFile = Absent
     \/ \E ps \in Files : storeFile = Whole([active |-> "", profiles |-> ps])
  /\ tmp = Absent /\ clipboard = NoLink /\ copied = Empty

-----------------------------------------------------------------------------
(* newModel: Load, or, when the file cannot be read or parsed, an empty    *)
(* store without defaults.                                                 *)
LaunchTui(i) ==
  /\ ui[i] = "off"
  /\ \/ /\ storeFile.kind \in {"absent", "whole"}
        /\ mem' = [mem EXCEPT ![i] = Load(storeFile)]
        /\ loaded' = [loaded EXCEPT ![i] = TRUE]
     \/ /\ storeFile.kind # "absent"
        /\ mem' = [mem EXCEPT ![i] = Empty]
        /\ loaded' = [loaded EXCEPT ![i] = FALSE]
  /\ ui' = [ui EXCEPT ![i] = "ready"]
  /\ cursor' = [cursor EXCEPT ![i] = 1]
  /\ msg' = [msg EXCEPT ![i] = ""]
  /\ UNCHANGED <<storeFile, tmp, clipboard, copied>>

(* The process ends or dies, in the middle of Save too.                    *)
Die(i) ==
  /\ ui[i] # "off"
  /\ ui' = [ui EXCEPT ![i] = "off"]
  /\ mem' = [mem EXCEPT ![i] = Empty]
  /\ loaded' = [loaded EXCEPT ![i] = FALSE]
  /\ msg' = [msg EXCEPT ![i] = ""]
  /\ cursor' = [cursor EXCEPT ![i] = 1]
  /\ UNCHANGED <<storeFile, tmp, clipboard, copied>>

(* A user edits the file and leaves a syntax error in it, or mends it.     *)
HandEdit ==
  /\ \A i \in Instances : ui[i] = "off"
  /\ storeFile.kind # "absent"
  /\ storeFile' = [storeFile EXCEPT !.kind = IF @ = "whole" THEN "torn" ELSE "whole"]
  /\ UNCHANGED <<mem, ui, loaded, cursor, msg, tmp, clipboard, copied>>

(* importLink: append, activate if nothing is active, Save.                *)
ImportLink(i, l) ==
  /\ ui[i] = "ready" /\ Len(mem[i].profiles) < MaxProfiles
  /\ IF ParseOk(l)
       THEN /\ mem' = [mem EXCEPT ![i].profiles = Append(@, Parse(l)),
                                  ![i].active = IF @ = "" THEN Parse(l).name ELSE @]
            /\ ui' = [ui EXCEPT ![i] = "open"]
            /\ UNCHANGED msg
       ELSE msg' = [msg EXCEPT ![i] = "error"] /\ UNCHANGED <<mem, ui>>
  /\ UNCHANGED <<loaded, cursor, storeFile, tmp, clipboard, copied>>

(* The enter key: the name under the cursor becomes the active one.        *)
Activate(i) ==
  /\ ui[i] = "ready" /\ mem[i].profiles # <<>>
  /\ mem' = [mem EXCEPT ![i].active = mem[i].profiles[cursor[i]].name]
  /\ ui' = [ui EXCEPT ![i] = "open"]
  /\ UNCHANGED <<loaded, cursor, msg, storeFile, tmp, clipboard, copied>>

MoveCursor(i) ==
  /\ ui[i] = "ready"
  /\ \E c \in {cursor[i] - 1, cursor[i] + 1} :
       /\ c \in 1..Len(mem[i].profiles)
       /\ cursor' = [cursor EXCEPT ![i] = c]
  /\ UNCHANGED <<mem, ui, loaded, msg, storeFile, tmp, clipboard, copied>>

(* copyLink: there may be no profile, Build may refuse its keys, and there *)
(* may be no clipboard.                                                    *)
CopyLink(i) ==
  /\ ui[i] = "ready"
  /\ \/ msg' = [msg EXCEPT ![i] = "error"] /\ UNCHANGED <<clipboard, copied>>
     \/ /\ mem[i].profiles # <<>> /\ BuildOk(Active(mem[i]))
        /\ clipboard' = Build(Active(mem[i])) /\ copied' = Active(mem[i])
        /\ msg' = [msg EXCEPT ![i] = "copied"]
  /\ UNCHANGED <<mem, ui, loaded, cursor, storeFile, tmp>>

-----------------------------------------------------------------------------
(* Save.  An error ends it; the memory keeps what it had.                  *)
SaveFails(i) ==
  /\ ui[i] \in {"open", "write", "rename"}
  /\ ui' = [ui EXCEPT ![i] = "ready"]
  /\ msg' = [msg EXCEPT ![i] = "error"]
  /\ UNCHANGED <<mem, loaded, cursor, storeFile, tmp, clipboard, copied>>

(* MkdirAll, MarshalIndent, and WriteFile's open with O_TRUNC.             *)
SaveOpen(i) ==
  /\ ui[i] = "open" /\ ui' = [ui EXCEPT ![i] = "write"]
  /\ tmp' = Torn
  /\ UNCHANGED <<mem, loaded, cursor, msg, storeFile, clipboard, copied>>

(* Its write, from offset zero of what the file holds now: a longer text   *)
(* of another process shows behind a shorter one.                          *)
SaveWrite(i) ==
  /\ ui[i] = "write" /\ ui' = [ui EXCEPT ![i] = "rename"]
  /\ tmp' = IF Len(tmp.profiles) > Len(mem[i].profiles) THEN Torn ELSE Whole(mem[i])
  /\ UNCHANGED <<mem, loaded, cursor, msg, storeFile, clipboard, copied>>

(* Mutant: the rename does not wait for the write.                         *)
SaveRenameEarly(i) ==
  /\ ui[i] \in {"write", "rename"} /\ tmp.kind # "absent"
  /\ storeFile' = tmp /\ tmp' = Absent
  /\ ui' = [ui EXCEPT ![i] = "ready"]
  /\ msg' = [msg EXCEPT ![i] = "saved"]
  /\ UNCHANGED <<mem, loaded, cursor, clipboard, copied>>

(* os.Rename, which on Windows fails while another process has the file    *)
(* open.                                                                   *)
SaveRename(i) ==
  /\ ui[i] = "rename" /\ tmp.kind # "absent"
  /\ \A j \in Instances : ui[j] # "write"
  /\ storeFile' = tmp /\ tmp' = Absent
  /\ ui' = [ui EXCEPT ![i] = "ready"]
  /\ msg' = [msg EXCEPT ![i] = "saved"]
  /\ UNCHANGED <<mem, loaded, cursor, clipboard, copied>>

Save(i) == SaveOpen(i) \/ SaveWrite(i) \/ SaveRename(i) \/ SaveFails(i)

StoreNext ==
  \/ HandEdit
  \/ \E i \in Instances :
       \/ LaunchTui(i) \/ Die(i) \/ Save(i)
       \/ \E l \in Links : ImportLink(i, l)
       \/ Activate(i) \/ MoveCursor(i) \/ CopyLink(i)

StoreSpec == StoreInit /\ [][StoreNext]_storeVars

-----------------------------------------------------------------------------
(* Correctness                                                             *)

(* Every variable has its type; the cursor is on a profile; a store that   *)
(* was loaded has no default left to fill in.                              *)
StoreTypeOK ==
  /\ \A i \in Instances :
       /\ ui[i] \in {"off", "ready", "open", "write", "rename"}
       /\ msg[i] \in {"", "error", "saved", "copied"}
       /\ cursor[i] \in 1..Len(mem[i].profiles) \cup {1}
       /\ loaded[i] => mem[i].defaults /\ \A p \in Range(mem[i].profiles) : withDefaults(p) = p
  /\ {storeFile.kind, tmp.kind} \subseteq {"absent", "whole", "torn"}

(* "Save atomically persists the store": no step of Save, no error and no  *)
(* death of the process puts a file in place that Load cannot read.        *)
SaveAtomic ==
  [][\A i \in Instances : Save(i) => storeFile' = storeFile \/ storeFile'.kind = "whole"]_storeVars

(* What a save puts in place of a store that was read keeps all of its     *)
(* profiles, with those that an earlier save could not write; and the      *)
(* report of success means that the file is the memory.                    *)
SaveKeeps ==
  [][\A i \in Instances :
       /\ (loaded[i] /\ storeFile' # storeFile /\ ui[i] = "rename") =>
            \A p \in Range(storeFile.profiles) : withDefaults(p) \in Range(storeFile'.profiles)
       /\ (ui[i] # "ready" /\ ui'[i] = "ready" /\ msg'[i] = "saved") => storeFile' = Whole(mem[i])]_storeVars

(* A copied link, pasted anywhere, is accepted.  It yields the profile it  *)
(* was copied from, under the name of its host if it has none, except for  *)
(* the local settings: those come back as a new profile has them, so that  *)
(* a profile that turned TLS off or TUN on no longer does.                 *)
LinkRoundTrip ==
  clipboard # NoLink =>
    /\ ParseOk(clipboard)
    /\ Parse(clipboard) = [withDefaults(copied) EXCEPT !.local = NewLocal,
                              !.name = IF @ = "" THEN copied.server ELSE @]

(* Names need not be unique, and the active profile is found by its name:  *)
(* it still changes only by enter, or by an import while none is selected. *)
ActiveStays ==
  [][\A i \in Instances :
       (/\ mem'[i].profiles # mem[i].profiles /\ ui[i] = "ready" /\ ui'[i] # "off"
        /\ mem[i].active \in {p.name : p \in Range(mem[i].profiles)} \ {""})
         => Active(mem'[i]) = Active(mem[i])]_storeVars

(* What the user entrusted to the store stays there.                       *)
StoreSafe == SaveAtomic /\ SaveKeeps /\ ActiveStays

=============================================================================
