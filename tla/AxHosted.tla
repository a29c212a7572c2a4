------------------------------- MODULE AxHosted -------------------------------
(***************************************************************************)
(* A hosted program of VM/altairx_v2: the core entered through the code    *)
(* write_entry_code puts behind the stack.                                 *)
(***************************************************************************)
EXTENDS AxCore

\* The words of entry_code as the core decodes them, for main at "main".  The
\* fifth, 0x00000302, has the operation code 1 (COP), not the 4 of movei.
Word0(op) == [op |-> op, pkg |-> FALSE, a |-> 0, b |-> 0, c |-> 0, hasImm |-> FALSE,
              imm |-> 0, other |-> 0, pq |-> 0, size |-> 1]
EntryCode(main) ==
  << [Word0(125) EXCEPT !.pkg = TRUE, !.imm = main % ImmRadix],    \* call @main
     [Word0(0) EXCEPT !.imm = main \div ImmRadix],                 \* moveix @main
     Word0(0),                                                     \* nop
     [Word0(16) EXCEPT !.a = 2, !.b = 1, !.hasImm = TRUE],         \* add r2, r1, 0
     [Word0(1) EXCEPT !.imm = 3],                                  \* 0x302
     [Word0(127) EXCEPT !.other = 4],                              \* syscall
     Word0(0), Word0(0) >>

\* "add.d r2, r1, 0 ; exit code, returned by main", "movei r1, 3 ; exit syscall"
\* (altairx.hpp): when main returns the process exits.
HostedExits == status \in {"run", "exit"}

=============================================================================
