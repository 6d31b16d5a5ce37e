------------------------- MODULE ConfigurationServer -------------------------
(***************************************************************************)
(* models/configuration_server: answers the questions of all processes,    *)
(* one at a time, until one of them sends "End".  Between the processes    *)
(* and the server are ZeroMQ DEALER and ROUTER sockets: nothing is lost,   *)
(* a question waits until the server has bound its port, and an answer     *)
(* goes to the identity that asked.                                        *)
(***************************************************************************)
EXTENDS HostsFile

CONSTANTS
  HostsFiles,  \* the files that the server may be started with
  Faults       \* Faults[file]: the failures that happen with it

FaultNames == {"parse", "bind", "signal", "busy"}

Processes == UNION {Names(file) : file \in HostsFiles}

ASSUME ServerAssumption ==
  /\ Faults \in [HostsFiles -> SUBSET FaultNames]
  /\ \A file \in HostsFiles :
       /\ file.minPort \in Nat /\ file.maxPort \in Nat
       /\ \A host \in DOMAIN file.hosts : file.hosts[host] \in Texts \cup {Empty}
       /\ file.models \in
            Seq([id : Seq(Words), path : STRING, persist : BOOLEAN, host : STRING,
                 depends : Seq(Seq(Words)),
                 parameters : Seq([name : Seq(Words), text : Texts])])

VARIABLES
  server,             \* "configuring", "serving" or "stopped"
  mDocument,          \* the hosts file
  mModelInformation,  \* the table of ports, addresses and parameters
  interruptOccured,   \* the flag that a signal sets
  mFrontend,          \* questions that wait: records [identity, msg]
  mailbox             \* mailbox[m]: answers on their way to process m

serverVars == <<server, mDocument, mModelInformation, interruptOccured, mFrontend, mailbox>>

NoEntries == [k \in {} |-> Empty]

ServerInit ==
  /\ server = "configuring"
  /\ mDocument \in HostsFiles
  /\ mModelInformation = NoEntries
  /\ interruptOccured = FALSE
  /\ mFrontend = <<>>
  /\ mailbox = [m \in Processes |-> <<>>]

-----------------------------------------------------------------------------

(* The constructor: the file is read and the frontend bound; either may    *)
(* fail.                                                                   *)
Configure ==
  /\ server = "configuring"
  /\ \/ /\ mModelInformation' = Information(mDocument)
        /\ server' = "serving"
     \/ /\ "parse" \in Faults[mDocument]
        /\ server' = "stopped"
        /\ UNCHANGED mModelInformation
     \/ /\ "bind" \in Faults[mDocument]
        /\ mModelInformation' = Information(mDocument)
        /\ server' = "stopped"
  /\ UNCHANGED <<mDocument, interruptOccured, mFrontend, mailbox>>

(* A bug: the entry is moved out of the table with the answer.             *)
ServeMoved ==
  /\ server = "serving"
  /\ mFrontend # <<>>
  /\ Head(mFrontend).msg # <<"End">>
  /\ mFrontend' = Tail(mFrontend)
  /\ LET request == Head(mFrontend) IN
       /\ mailbox' = [mailbox EXCEPT ![request.identity] = Append(@,
             Answer(mDocument, mModelInformation, request.identity, request.msg))]
       /\ mModelInformation' =
            IF request.msg \in GetQuestions
              THEN mModelInformation
              ELSE Overwrite(mModelInformation, [k \in {request.msg} |-> Empty])
  /\ server' = IF interruptOccured THEN "stopped" ELSE "serving"
  /\ UNCHANGED <<mDocument, interruptOccured>>

(* One pass of the loop of run: answer, then look at the interrupt flag.   *)
(* An unknown key leaves an empty entry in the table.                      *)
Serve ==
  /\ server = "serving"
  /\ mFrontend # <<>>
  /\ Head(mFrontend).msg # <<"End">>
  /\ mFrontend' = Tail(mFrontend)
  /\ LET request == Head(mFrontend) IN
       /\ mailbox' = [mailbox EXCEPT ![request.identity] = Append(@,
             Answer(mDocument, mModelInformation, request.identity, request.msg))]
       /\ mModelInformation' =
            IF request.msg \in GetQuestions \cup DOMAIN mModelInformation
              THEN mModelInformation
              ELSE Overwrite(mModelInformation, [k \in {request.msg} |-> Empty])
  /\ server' = IF interruptOccured THEN "stopped" ELSE "serving"
  /\ UNCHANGED <<mDocument, interruptOccured>>

(* "End" stops the server; what waits behind it is never answered.         *)
ServeEnd ==
  /\ server = "serving"
  /\ mFrontend # <<>>
  /\ Head(mFrontend).msg = <<"End">>
  /\ mFrontend' = Tail(mFrontend)
  /\ server' = "stopped"
  /\ UNCHANGED <<mDocument, mModelInformation, interruptOccured, mailbox>>

(* A signal: s_recv throws if the server waits in it, and main ends.       *)
Interrupt ==
  /\ "signal" \in Faults[mDocument]
  /\ ~interruptOccured
  /\ server # "stopped"
  /\ interruptOccured' = TRUE
  /\ \/ server' = server
     \/ server = "serving" /\ server' = "stopped"
  /\ UNCHANGED <<mDocument, mModelInformation, mFrontend, mailbox>>

=============================================================================
