---------------------------- MODULE TaskDescriptors ----------------------------
(***************************************************************************)
(* The descriptors of a launch (src/BromiumCoreUtils/BRUTask.m): how the   *)
(* client's files become standard input, output and error of the child's   *)
(* program, between the fork and execve, and what is left open on both     *)
(* sides.  BRUTask has the launch's other steps; here one launch runs by   *)
(* itself and fork succeeds.                                               *)
(***************************************************************************)
EXTENDS FiniteSets, Integers

CONSTANTS
    dtablesize,         \* how many descriptors a process may have open
    ClientDescriptors,  \* those that may be open before the launch
    NSPipes             \* the ones among them that are an NSPipe's child end

STDERR_FILENO == 2
Streams == 0 .. STDERR_FILENO
NoDescriptor == -1

Descriptors == 0 .. dtablesize - 1

\* There is room for the four ends of the two pipes, so that pipe() succeeds.
ASSUME DescriptorAssumption ==
    /\ dtablesize \in Nat
    /\ IsFiniteSet(ClientDescriptors) /\ ClientDescriptors \subseteq Descriptors
    /\ Cardinality(ClientDescriptors) + 4 <= dtablesize

File(d) == << "file", d >>
ChildToParent == << "end", "child2parent[1]" >>
OtherEnd == << "end", "other" >>
Closed == << >>

VARIABLES
    stage,          \* how far the launch is
    fds,            \* fd_stdin, fd_stdout and fd_stderr
    before,         \* history: the descriptors open before the launch
    parentTable,    \* [Descriptors -> what the parent has open there]
    childTable,     \* [Descriptors -> what the child has open there]
    errorPipe,      \* child2parent[1]
    closesOnExec,   \* the child's descriptors with FD_CLOEXEC
    redirected,     \* how many of the streams dup2 was called for
    launched        \* what launchWithError: returned

descriptorVars == << stage, fds, before, parentTable, childTable, errorPipe,
                     closesOnExec, redirected, launched >>

AllClosed == [d \in Descriptors |-> Closed]

InitDescriptors ==
    /\ stage = "idle"
    /\ fds = [s \in Streams |-> NoDescriptor]
    /\ before = {}
    /\ parentTable = AllClosed /\ childTable = AllClosed
    /\ errorPipe = NoDescriptor /\ closesOnExec = {}
    /\ redirected = 0
    /\ launched = FALSE

CloseIn(table, closed) == [d \in Descriptors |-> IF d \in closed THEN Closed ELSE table[d]]

\* Both calls of pipe(), each of which takes the lowest descriptors that are free, and
\* fork.  The child closes three of the ends before it goes on; the fourth is to close
\* on exec.
Launch(open, given) ==
    LET free == Descriptors \ open
        LowerFree(d) == Cardinality({ e \in free : e < d })
        ends == { d \in free : LowerFree(d) < 4 }
        writeEnd == CHOOSE d \in free : LowerFree(d) = 1
        table == [d \in Descriptors |->
                     IF d \in open THEN File(d)
                     ELSE IF d = writeEnd THEN ChildToParent
                     ELSE IF d \in ends THEN OtherEnd ELSE Closed]
    IN /\ stage = "idle" /\ stage' = "redirect"
       /\ fds' = given
       /\ before' = open
       /\ parentTable' = table
       /\ errorPipe' = writeEnd
       /\ childTable' = CloseIn(table, ends \ {writeEnd})
       /\ closesOnExec' = {writeEnd}
       /\ UNCHANGED << redirected, launched >>

\* dup2 to itself does nothing; otherwise the copy does not close on exec.
Dup2(table, from, to) == [table EXCEPT ![to] = table[from]]

\* Mutation: the original is closed as soon as it was copied.
Redirect_ClosesAtOnce(s) ==
    /\ stage = "redirect" /\ redirected = s
    /\ redirected' = s + 1
    /\ childTable' = IF fds[s] = NoDescriptor THEN childTable
                     ELSE CloseIn(Dup2(childTable, fds[s], s),
                                  IF fds[s] > STDERR_FILENO THEN {fds[s]} ELSE {})
    /\ closesOnExec' = IF fds[s] \in {NoDescriptor, s} THEN closesOnExec
                       ELSE closesOnExec \ {s}
    /\ stage' = IF s = STDERR_FILENO THEN "close" ELSE stage
    /\ UNCHANGED << fds, before, parentTable, errorPipe, launched >>

\* The streams in their order.
Redirect(s) ==
    /\ stage = "redirect" /\ redirected = s
    /\ redirected' = s + 1
    /\ childTable' = IF fds[s] = NoDescriptor THEN childTable
                     ELSE Dup2(childTable, fds[s], s)
    /\ closesOnExec' = IF fds[s] \in {NoDescriptor, s} THEN closesOnExec
                       ELSE closesOnExec \ {s}
    /\ stage' = IF s = STDERR_FILENO THEN "close" ELSE stage
    /\ UNCHANGED << fds, before, parentTable, errorPipe, launched >>

\* The originals, then everything else but the error pipe.
CloseOthers ==
    /\ stage = "close" /\ stage' = "exec"
    /\ LET originals == { fds[s] : s \in { r \in Streams : fds[r] > STDERR_FILENO } }
           others == { d \in Descriptors : d > STDERR_FILENO /\ d # errorPipe }
       IN childTable' = CloseIn(childTable, originals \cup others)
    /\ UNCHANGED << fds, before, parentTable, errorPipe, closesOnExec, redirected, launched >>

Exec ==
    /\ stage = "exec" /\ stage' = "executed"
    /\ childTable' = CloseIn(childTable, closesOnExec)
    /\ UNCHANGED << fds, before, parentTable, errorPipe, closesOnExec, redirected, launched >>

\* execve returns; errno is written to whatever the error pipe's descriptor is now.
ExecFails ==
    /\ stage = "exec" /\ stage' = "refused"
    /\ UNCHANGED << fds, before, parentTable, childTable, errorPipe, closesOnExec,
                    redirected, launched >>

\* The parent reads errno or the end of file, and closes its ends of the pipes; of a
\* launch that succeeded the client's NSPipe ends too.
ParentReturns ==
    LET success == ~(stage = "refused" /\ childTable[errorPipe] = ChildToParent)
        streams == { fds[s] : s \in Streams }
        ends == { d \in Descriptors : parentTable[d] \in {ChildToParent, OtherEnd} }
    IN /\ stage \in {"executed", "refused"}
       /\ stage' = IF stage = "executed" THEN "runs" ELSE "gaveUp"
       /\ launched' = success
       /\ parentTable' = CloseIn(parentTable,
              ends \cup (IF success THEN { d \in streams \cap NSPipes : d > STDERR_FILENO }
                         ELSE {}))
       /\ UNCHANGED << fds, before, childTable, errorPipe, closesOnExec, redirected >>

NextDescriptors ==
    \/ /\ stage = "idle"
       /\ \E open \in SUBSET ClientDescriptors :
              \E given \in [Streams -> open \cup {NoDescriptor}] : Launch(open, given)
    \/ \E s \in Streams : Redirect(s)
    \/ CloseOthers \/ Exec \/ ExecFails \/ ParentReturns

SpecDescriptors == InitDescriptors /\ [][NextDescriptors]_descriptorVars

---------------------------------------------------------------------------

\* The program's stream s was given a descriptor that is the number of an earlier
\* stream, which was redirected first.
Overwritten(s) == \E r \in Streams : r < s /\ fds[s] = r /\ fds[r] \notin {NoDescriptor, r}

\* Whichever descriptors the client gives, one for several streams, the standard ones
\* and none included: the program has as each stream the file the client gave, or else
\* the one the parent has there, and nothing else open; the parent has what it had,
\* without the child's ends of NSPipes if the launch succeeded; and a failed execve is
\* told.  Not so for a descriptor that is the number of an earlier stream; nor is the
\* failure told if the process had a standard stream closed, as the error pipe may take
\* its place (BRUTask.m:162-206, 264-341).
DescriptorsArrive ==
    /\ stage = "runs" =>
           \A d \in Descriptors :
               IF d > STDERR_FILENO THEN childTable[d] = Closed
               ELSE IF fds[d] # NoDescriptor
               THEN Overwritten(d) \/ childTable[d] = File(fds[d])
               ELSE childTable[d] = IF d \in before THEN File(d) ELSE Closed
    /\ stage \in {"runs", "gaveUp"} =>
           LET given == { fds[s] : s \in Streams }
           IN \A d \in Descriptors :
                  parentTable[d] =
                      IF d \in before /\ ~(launched /\ d \in (given \cap NSPipes) \ Streams)
                      THEN File(d) ELSE Closed
    /\ Streams \subseteq before =>
           (stage = "gaveUp" => ~launched) /\ (stage = "runs" => launched)
==============================================================================
