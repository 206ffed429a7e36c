---------------------------- MODULE MCHostSetup ----------------------------
EXTENDS HostSetup
McSelections == {{"ufw"}, {"ssh", "auditd"}, {"docker-socket", "lynis"}}
McSshds == {[match |-> FALSE, keys |-> k] : k \in BOOLEAN}
\* A host whose sshd_config ends in a Match block.
McMatch == {[match |-> TRUE, keys |-> TRUE]}
McSsh == {{"ssh"}}
=============================================================================
