------------------------------ MODULE MCPcLink ------------------------------
EXTENDS PcLink

CONSTANTS c1, c2, none, home, wrong

\* Each behaviour has one of these budgets: two clients of two tasks; a
\* client whose queue fills up; one that sends commands and reads lines;
\* commands from all sides; provisioning of a new device, of one with wrong
\* and of one with good credentials, which also serves a client.
MCBudgets ==
    { [saved |-> none, clients |-> {c1, c2}, lines |-> 1, uart |-> 1, web |-> 0, attempts |-> 0],
      [saved |-> none, clients |-> {c1}, lines |-> 2, uart |-> 1, web |-> 0, attempts |-> 0],
      [saved |-> none, clients |-> {c1}, lines |-> 1, uart |-> 1, web |-> 1, attempts |-> 0],
      [saved |-> none, clients |-> {c1}, lines |-> 0, uart |-> 3, web |-> 2, attempts |-> 0],
      [saved |-> none, clients |-> {}, lines |-> 0, uart |-> 0, web |-> 0, attempts |-> 3],
      [saved |-> wrong, clients |-> {}, lines |-> 0, uart |-> 0, web |-> 0, attempts |-> 2],
      [saved |-> home, clients |-> {c1}, lines |-> 0, uart |-> 1, web |-> 0, attempts |-> 1] }

\* A device that knows its network and one that is new, without clients.
MCProvisioning ==
    { [saved |-> home, clients |-> {}, lines |-> 0, uart |-> 0, web |-> 0, attempts |-> 1],
      [saved |-> none, clients |-> {}, lines |-> 0, uart |-> 0, web |-> 0, attempts |-> 2] }
=============================================================================
