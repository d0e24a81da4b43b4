---------------------------- MODULE Presentation ----------------------------
(***************************************************************************)
(* The ownership of private presentations: a bare `wsnav` in a terminal    *)
(* discovers the presentations of its state root, reuses the live one or   *)
(* starts a fresh one, attaches to it, and closes what it can prove to be  *)
(* stopped (presentation/ownership.rs, presentation/cleanup.rs,            *)
(* presentation/attachment.rs, app/dispatch.rs).                           *)
(*                                                                         *)
(* A presentation is a directory with a tmux configuration, an ownership   *)
(* marker, an attachment status and a socket, and a tmux server with a     *)
(* Navigator pane and a provider pane.  There is no lock: terminals meet   *)
(* in the directory and in the server, and each call of theirs is a step.  *)
(* The marker is rewritten in place; a status is written beside its file   *)
(* and renamed.  An entry the owner does not know refuses every reading.   *)
(*                                                                         *)
(* File identities stand for what they tell apart: a directory has one     *)
(* server and one marker file in its life, so a marker changed exactly     *)
(* when its content did.  Provisional shells are in Onboarding, the        *)
(* provider pane in ProviderPane, reviews in ObserverSetup.                *)
(***************************************************************************)
EXTENDS Naturals

CONSTANTS
  Terminals,     \* processes that run the bare command
  Directories,   \* bound: the fresh presentation directories
  NoDirectory,   \* model value: no directory
  Mishaps        \* TRUE if processes die, tmux refuses a start stage, servers are lost

ASSUME MishapsAssumption == Mishaps \in BOOLEAN
ASSUME NoDirectoryAssumption == NoDirectory \notin Directories

VARIABLES
  entries,      \* the files of each directory
  tmux,       \* the server of each directory
  terminal,   \* each terminal process
  harmed      \* history: directories somebody left half-done or closed while they started

presentationVars == <<entries, tmux, terminal, harmed>>

Markers == {"none", "torn", "bare", "current", "captured"}
Missing == [made |-> FALSE, config |-> FALSE, marker |-> "none", status |-> FALSE,
            temporary |-> "none", socket |-> FALSE]
NoServer == [live |-> FALSE, navigator |-> "none", provider |-> FALSE, clients |-> {}]
Idle == [at |-> "idle", dir |-> NoDirectory, todo |-> {}, live |-> {},
         marker |-> "none", socket |-> FALSE, after |-> "none"]

PresentationInit ==
  /\ entries = [d \in Directories |-> Missing]
  /\ tmux = [d \in Directories |-> NoServer]
  /\ terminal = [t \in Terminals |-> Idle]
  /\ harmed = {}

-----------------------------------------------------------------------------
(* What a process reads.                                                   *)

Named(d) == entries[d].temporary = "none"

(* read_presentation_ownership: the exact marker of an initialized         *)
(* presentation, its configuration, and no entry that is not known.        *)
Readable(d) ==
  /\ entries[d].made /\ entries[d].config
  /\ entries[d].marker \in {"current", "captured"}
  /\ Named(d)

ReadableUninitialized(d) ==
  entries[d].made /\ entries[d].config /\ entries[d].marker = "bare" /\ Named(d)

Topology(d) ==
  tmux[d].live /\ tmux[d].navigator \in {"alive", "leaving"} /\ tmux[d].provider

Starting == {"mkdir", "config", "create", "bare", "context", "current", "server",
             "capture", "captured", "navigator", "provider", "bindings"}
Closing == {"close", "kill", "remove", "rm_status", "rm_config", "rm_socket", "rm_marker", "rmdir"}

Reached(t, step) == terminal[t].at = step
Dir(t) == terminal[t].dir
Proceed(t, step) == terminal' = [terminal EXCEPT ![t].at = step]
Ends(t) == terminal' = [terminal EXCEPT ![t] = Idle]
BeginClose(t, after) == terminal' = [terminal EXCEPT ![t].at = "close", ![t].after = after]

(* A close returns to the scan it belongs to, whose error ends the open;   *)
(* the close that follows a failed start or attach ends the command.       *)
Closed(t) == IF terminal[t].after = "scan" THEN Proceed(t, "scan") ELSE Ends(t)

-----------------------------------------------------------------------------
(* discover_live and open_or_create.                                       *)

OpenPresentation(t) ==
  /\ Reached(t, "idle")
  /\ terminal' = [terminal EXCEPT ![t].at = "scan", ![t].todo = {d \in Directories : entries[d].made}]
  /\ UNCHANGED <<entries, tmux, harmed>>

ProbeDirectory(t) ==
  /\ Reached(t, "scan")
  /\ \E d \in terminal[t].todo :
       terminal' = [terminal EXCEPT ![t].todo = @ \ {d}, ![t].dir = d, ![t].after = "scan",
                                    ![t].at = IF tmux[d].live THEN "inspect" ELSE "close"]
  /\ UNCHANGED <<entries, tmux, harmed>>

InspectNavigator(t) ==
  /\ Reached(t, "inspect")
  /\ CASE ~tmux[Dir(t)].live -> Ends(t)
       [] tmux[Dir(t)].navigator = "dead" -> Proceed(t, "count")
       [] OTHER -> terminal' = [terminal EXCEPT ![t].at = "scan", ![t].live = @ \union {Dir(t)}]
  /\ UNCHANGED <<entries, tmux, harmed>>

CountClients(t) ==
  /\ Reached(t, "count")
  /\ IF tmux[Dir(t)].live /\ tmux[Dir(t)].clients = {} THEN BeginClose(t, "scan") ELSE Ends(t)
  /\ UNCHANGED <<entries, tmux, harmed>>

(* None live: a fresh one; one: its context must be readable; several are  *)
(* ambiguous.                                                              *)
ChoosePresentation(t) ==
  /\ Reached(t, "scan") /\ terminal[t].todo = {}
  /\ \/ /\ terminal[t].live = {}
        /\ Proceed(t, "mkdir")
     \/ /\ \E d \in terminal[t].live :
             /\ terminal[t].live = {d}
             /\ IF Readable(d)
                THEN terminal' = [terminal EXCEPT ![t].at = "prepare", ![t].dir = d]
                ELSE Ends(t)
     \/ (\E d, e \in terminal[t].live : d # e) /\ Ends(t)
  /\ UNCHANGED <<entries, tmux, harmed>>

-----------------------------------------------------------------------------
(* create_paths and start_with_context.                                    *)

MakeDirectory(t) ==
  /\ Reached(t, "mkdir")
  /\ \E d \in Directories :
       /\ entries[d] = Missing /\ d \notin harmed
       /\ \A o \in Terminals : d \notin {Dir(o)} \union terminal[o].todo \union terminal[o].live
       /\ entries' = [entries EXCEPT ![d].made = TRUE]
       /\ terminal' = [terminal EXCEPT ![t].at = "config", ![t].dir = d]
  /\ UNCHANGED <<tmux, harmed>>

WriteConfig(t) ==
  /\ Reached(t, "config")
  /\ entries' = [entries EXCEPT ![Dir(t)].config = TRUE]
  /\ Proceed(t, "create")
  /\ UNCHANGED <<tmux, harmed>>

CreateMarker(t) ==
  /\ Reached(t, "create")
  /\ entries' = [entries EXCEPT ![Dir(t)].marker = "torn"]
  /\ Proceed(t, "bare")
  /\ UNCHANGED <<tmux, harmed>>

(* A stage that fails closes the presentation if its marker exists.        *)
StageFails(t) ==
  /\ IF entries[Dir(t)].marker # "none" THEN BeginClose(t, "end") ELSE Ends(t)
  /\ UNCHANGED <<entries, tmux, harmed>>

(* The second half of an in-place rewrite; the marker that was opened may  *)
(* have been unlinked meanwhile.                                           *)
WriteMarker(t, content, next) ==
  /\ Reached(t, content)
  /\ IF entries[Dir(t)].marker = "torn"
     THEN /\ entries' = [entries EXCEPT ![Dir(t)].marker = content]
          /\ Proceed(t, next)
          /\ UNCHANGED <<tmux, harmed>>
     ELSE StageFails(t)

(* The first half: the expected content is read again and truncated.       *)
TruncateMarker(t, step, next, readable) ==
  /\ Reached(t, step)
  /\ IF readable
     THEN /\ entries' = [entries EXCEPT ![Dir(t)].marker = "torn"]
          /\ Proceed(t, next)
          /\ UNCHANGED <<tmux, harmed>>
     ELSE StageFails(t)

InitializeContext(t) == TruncateMarker(t, "context", "current", ReadableUninitialized(Dir(t)))

(* tmux binds its socket in the directory; the configured options are not  *)
(* told apart.                                                             *)
NewServer(t) ==
  /\ Reached(t, "server")
  /\ \/ /\ entries[Dir(t)].made
        /\ entries' = [entries EXCEPT ![Dir(t)].socket = TRUE]
        /\ tmux' = [tmux EXCEPT ![Dir(t)] = [NoServer EXCEPT !.live = TRUE, !.navigator = "alive"]]
        /\ Proceed(t, "capture")
        /\ UNCHANGED harmed
     \/ (Mishaps \/ ~entries[Dir(t)].made) /\ StageFails(t)

CaptureSocket(t) ==
  TruncateMarker(t, "capture", "captured", Readable(Dir(t)) /\ entries[Dir(t)].socket)

(* A tmux command on a live server may be refused; on a lost one it is.    *)
Stage(t, step, server, next) ==
  /\ Reached(t, step)
  /\ \/ /\ tmux[Dir(t)].live
        /\ tmux' = [tmux EXCEPT ![Dir(t)] = server]
        /\ Proceed(t, next)
        /\ UNCHANGED <<entries, harmed>>
     \/ (Mishaps \/ ~tmux[Dir(t)].live) /\ StageFails(t)

LaunchNavigator(t) == Stage(t, "navigator", tmux[Dir(t)], "provider")
SplitProvider(t) == Stage(t, "provider", [tmux[Dir(t)] EXCEPT !.provider = TRUE], "bindings")

InstallBindings(t) ==
  /\ Reached(t, "bindings")
  /\ \/ Readable(Dir(t)) /\ Topology(Dir(t)) /\ Proceed(t, "prepare") /\ UNCHANGED <<entries, tmux, harmed>>
     \/ (Mishaps \/ ~Readable(Dir(t)) \/ ~Topology(Dir(t))) /\ StageFails(t)

StartFresh(t) ==
  \/ MakeDirectory(t) \/ WriteConfig(t) \/ CreateMarker(t) \/ WriteMarker(t, "bare", "context")
  \/ InitializeContext(t) \/ WriteMarker(t, "current", "server")
  \/ NewServer(t) \/ CaptureSocket(t) \/ WriteMarker(t, "captured", "navigator")
  \/ LaunchNavigator(t) \/ SplitProvider(t) \/ InstallBindings(t)

-----------------------------------------------------------------------------
(* attach, and what the command does when it returns.  Every error of it   *)
(* closes the presentation.                                                *)

PrepareAttach(t) ==
  /\ Reached(t, "prepare")
  /\ \/ Readable(Dir(t)) /\ Topology(Dir(t)) /\ Proceed(t, "attach")
     \/ (Mishaps \/ ~Readable(Dir(t)) \/ ~Topology(Dir(t))) /\ BeginClose(t, "end")
  /\ UNCHANGED <<entries, tmux, harmed>>

AttachClient(t) ==
  /\ Reached(t, "attach")
  /\ IF tmux[Dir(t)].live
     THEN /\ tmux' = [tmux EXCEPT ![Dir(t)].clients = @ \union {t}]
          /\ Proceed(t, "attached")
     ELSE Proceed(t, "failed") /\ UNCHANGED tmux
  /\ UNCHANGED <<entries, harmed>>

(* The client leaves: its user detached it, the Navigator detached every   *)
(* client, or the server ended.                                            *)
ClientReturns(t) ==
  /\ Reached(t, "attached")
  /\ tmux' = [tmux EXCEPT ![Dir(t)].clients = @ \ {t}]
  /\ Proceed(t, IF t \in tmux[Dir(t)].clients \/ tmux[Dir(t)].live THEN "left" ELSE "failed")
  /\ UNCHANGED <<entries, harmed>>

(* is_live, then up to NAVIGATOR_STOP_ATTEMPTS looks at the Navigator.     *)
AfterAttach(t) ==
  /\ Reached(t, "left") \/ Reached(t, "failed")
  /\ CASE ~tmux[Dir(t)].live \/ tmux[Dir(t)].navigator = "dead" -> BeginClose(t, "end")
       [] Reached(t, "failed") -> BeginClose(t, "end")
       [] OTHER -> Ends(t)
  /\ UNCHANGED <<entries, tmux, harmed>>

-----------------------------------------------------------------------------
(* close.                                                                  *)

Contested(t) == \E o \in Terminals \ {t} : Dir(o) = Dir(t) /\ terminal[o].at \in Starting

(* Two equal readings and the context.  A directory that is gone is closed *)
(* and one whose ownership cannot be read is refused.                      *)
ReadOwnership(t) ==
  /\ Reached(t, "close")
  /\ CASE ~entries[Dir(t)].made -> Closed(t)
       [] Readable(Dir(t)) ->
            terminal' = [terminal EXCEPT ![t].at = "kill", ![t].marker = entries[Dir(t)].marker,
                                         ![t].socket = entries[Dir(t)].socket]
       [] OTHER -> Ends(t)
  /\ UNCHANGED <<entries, tmux, harmed>>

\* Mutant: a close that spares a server somebody is attached to.
KillServerUnlessAttached(t) ==
  /\ Reached(t, "kill")
  /\ tmux' = [tmux EXCEPT ![Dir(t)] = IF @.clients = {} THEN NoServer ELSE @]
  /\ harmed' = IF Contested(t) THEN harmed \union {Dir(t)} ELSE harmed
  /\ Proceed(t, "remove")
  /\ UNCHANGED entries

KillServer(t) ==
  /\ Reached(t, "kill")
  /\ tmux' = [tmux EXCEPT ![Dir(t)] = NoServer]
  /\ harmed' = IF Contested(t) THEN harmed \union {Dir(t)} ELSE harmed
  /\ Proceed(t, "remove")
  /\ UNCHANGED entries

(* remove_owned_presentation reads the ownership once more and validates   *)
(* the entries before each removal.                                        *)
Remove(t, step, allowed, file, next) ==
  /\ Reached(t, step)
  /\ IF entries[Dir(t)].made /\ Named(Dir(t)) /\ allowed
     THEN entries' = [entries EXCEPT ![Dir(t)] = file] /\ Proceed(t, next)
     ELSE Ends(t) /\ UNCHANGED entries
  /\ UNCHANGED <<tmux, harmed>>

SameMarker(t) == entries[Dir(t)].marker = terminal[t].marker

RemoveFiles(t) ==
  LET f == entries[Dir(t)] IN
  \/ Remove(t, "remove", Readable(Dir(t)) /\ SameMarker(t), f, "rm_status")
  \/ Remove(t, "rm_status", TRUE, [f EXCEPT !.status = FALSE], "rm_config")
  \/ Remove(t, "rm_config", TRUE, [f EXCEPT !.config = FALSE], "rm_socket")
  \/ Remove(t, "rm_socket", ~f.socket \/ terminal[t].socket, [f EXCEPT !.socket = FALSE], "rm_marker")
  \/ Remove(t, "rm_marker", f.marker = "none" \/ SameMarker(t), [f EXCEPT !.marker = "none"], "rmdir")

RemoveDirectory(t) ==
  /\ Reached(t, "rmdir")
  /\ CASE ~entries[Dir(t)].made -> Closed(t) /\ UNCHANGED entries
       [] entries[Dir(t)] = [Missing EXCEPT !.made = TRUE] ->
            entries' = [entries EXCEPT ![Dir(t)] = Missing] /\ Closed(t)
       [] OTHER -> Ends(t) /\ UNCHANGED entries
  /\ UNCHANGED <<tmux, harmed>>

ClosePresentation(t) == ReadOwnership(t) \/ KillServer(t) \/ RemoveFiles(t) \/ RemoveDirectory(t)

-----------------------------------------------------------------------------
(* The panes: the Navigator that quits detaches the clients and exits, and *)
(* a pane process writes a status.                                         *)

NavigatorStops(d) ==
  /\ tmux[d].navigator = "alive" /\ tmux[d].provider
  /\ tmux' = [tmux EXCEPT ![d].navigator = "leaving",
                          ![d].clients = IF Readable(d) /\ entries[d].socket THEN {} ELSE @]
  /\ UNCHANGED <<entries, terminal, harmed>>

NavigatorExits(d) ==
  /\ \/ tmux[d].navigator = "leaving"
     \/ Mishaps /\ tmux[d].navigator = "alive"
  /\ tmux' = [tmux EXCEPT ![d].navigator = "dead"]
  /\ UNCHANGED <<entries, terminal, harmed>>

BeginStatus(d) ==
  /\ tmux[d].live /\ tmux[d].provider
  /\ entries[d].made /\ Named(d)
  /\ entries' = [entries EXCEPT ![d].temporary = "open"]
  /\ UNCHANGED <<tmux, terminal, harmed>>

RenameStatus(d) ==
  /\ entries[d].temporary = "open"
  /\ entries' = [entries EXCEPT ![d].temporary = "none", ![d].status = TRUE]
  /\ UNCHANGED <<tmux, terminal, harmed>>

(* A writer dies with its server, or by a mishap, before it renames.       *)
WriterDies(d) ==
  /\ entries[d].temporary = "open" /\ (Mishaps \/ ~tmux[d].live)
  /\ entries' = [entries EXCEPT ![d].temporary = "left"]
  /\ harmed' = harmed \union {d}
  /\ UNCHANGED <<tmux, terminal>>

ServerDies(d) ==
  /\ Mishaps /\ tmux[d].live
  /\ tmux' = [tmux EXCEPT ![d] = NoServer]
  /\ UNCHANGED <<entries, terminal, harmed>>

(* A terminal is closed or its process is killed.                          *)
TerminalDies(t) ==
  /\ Mishaps /\ terminal[t].at # "idle"
  /\ harmed' = IF Dir(t) # NoDirectory /\ terminal[t].at \in Starting \union Closing
               THEN harmed \union {Dir(t)} ELSE harmed
  /\ tmux' = [d \in Directories |-> [tmux[d] EXCEPT !.clients = @ \ {t}]]
  /\ Ends(t)
  /\ UNCHANGED entries

Panes(d) ==
  NavigatorStops(d) \/ NavigatorExits(d) \/ BeginStatus(d) \/ RenameStatus(d) \/ WriterDies(d)

Command(t) ==
  \/ OpenPresentation(t) \/ ProbeDirectory(t) \/ InspectNavigator(t) \/ CountClients(t)
  \/ ChoosePresentation(t) \/ StartFresh(t)
  \/ PrepareAttach(t) \/ AttachClient(t) \/ ClientReturns(t) \/ AfterAttach(t)
  \/ ClosePresentation(t)

PresentationNext ==
  \/ \E t \in Terminals : Command(t) \/ TerminalDies(t)
  \/ \E d \in Directories : Panes(d) \/ ServerDies(d)

PresentationSpec == PresentationInit /\ [][PresentationNext]_presentationVars

-----------------------------------------------------------------------------

(* Every variable keeps its type.                                          *)
PresentationTypeOK ==
  /\ entries \in [Directories -> [made : BOOLEAN, config : BOOLEAN, marker : Markers, status : BOOLEAN,
                                temporary : {"none", "open", "left"}, socket : BOOLEAN]]
  /\ tmux \in [Directories -> [live : BOOLEAN, navigator : {"none", "alive", "leaving", "dead"},
                               provider : BOOLEAN, clients : SUBSET Terminals]]
  /\ terminal \in [Terminals ->
       [at : {"idle", "scan", "inspect", "count", "prepare", "attach", "attached", "left", "failed"}
             \union Starting \union Closing,
        dir : Directories \union {NoDirectory}, todo : SUBSET Directories, live : SUBSET Directories,
        marker : Markers, socket : BOOLEAN, after : {"none", "scan", "end"}]]
  /\ harmed \in SUBSET Directories

Untouched(d) ==
  /\ entries[d].temporary # "open"
  /\ \A t \in Terminals : Dir(t) = d => terminal[t].at \notin Starting \union Closing

(* A presentation nobody is working on, that no process abandoned half-    *)
(* way and no other terminal closed while it was starting, is gone with    *)
(* its server or can be read: the next command reuses or closes it.  A     *)
(* failed stage, a lost server, a quitting or dying Navigator and two      *)
(* terminals that close at once never strand one.                          *)
LeftInOrder ==
  \A d \in Directories \ harmed : Untouched(d) =>
    \/ Readable(d) /\ (tmux[d].live => entries[d].socket)
    \/ entries[d] = Missing /\ tmux[d] = NoServer

(* Discovery refuses to close a presentation that clients are attached to  *)
(* (src/src/presentation/cleanup.rs:466) and a detached one stays for a    *)
(* later reconnect (src/src/app/dispatch.rs:468): nobody closes a          *)
(* presentation whose Navigator lives while a terminal is attached to it.  *)
AttachedIsKept ==
  [][\A t \in Terminals :
       /\ Reached(t, "kill") /\ terminal'[t].at = "remove"
       /\ tmux[Dir(t)].navigator = "alive"
       => tmux[Dir(t)].clients = {}]_presentationVars
=============================================================================
