------------------------------ MODULE UvmPhases ------------------------------
(***************************************************************************)
(* The UVM testbench of an AXI4-Stream design before its run phase: main() *)
(* configures the interfaces, the build phase creates the components from  *)
(* the top down, the connect phase wires them from the bottom up.          *)
(*                                                                         *)
(* A component is its path below the test.  The UVM library calls the      *)
(* phase functions of siblings in an order the code does not fix, so every *)
(* order is a behaviour here.                                              *)
(***************************************************************************)

VARIABLES phase,     \* "build", "connect", "run", "extract", "report",
                     \* "stopped", or "fatal" after a UVM_FATAL
          vif,       \* agents whose interface main() put into the config_db
          created,   \* components that exist
          built,     \* components whose build_phase() was called
          wired,     \* components whose connect_phase() was called
          bindings   \* <<from, to>>: ports bound and pointers assigned

phaseVars == <<phase, vif, created, built, wired, bindings>>

Agents == {"rx_agent", "tx_agent", "reset_agent"}

Driver == [rx_agent |-> "rx_agent.driver", tx_agent |-> "tx_agent.driver",
           reset_agent |-> "reset_agent.driver"]

Sequencer == [rx_agent |-> "rx_agent.sequencer",
              tx_agent |-> "tx_agent.sequencer",
              reset_agent |-> "reset_agent.sequencer"]

Monitor == [rx_agent |-> "rx_agent.monitor", tx_agent |-> "tx_agent.monitor"]

Watching == DOMAIN Monitor   \* the agents with a monitor

\* The components and their parents.
TestbenchParts == Agents \cup {"scoreboard", "sequencer"}

AgentParts(agent) ==
    {Driver[agent], Sequencer[agent]}
        \cup (IF agent \in Watching THEN {Monitor[agent]} ELSE {})

\* The drivers and monitors, which look up the interface of their agent.
Users(agent) == AgentParts(agent) \ {Sequencer[agent]}

-----------------------------------------------------------------------------

PhasesInit ==
    /\ phase = "build"
    /\ vif \in SUBSET Agents
    /\ created = {"test"}
    /\ built = {}
    /\ wired = {}
    /\ bindings = {}

Build(c, parts) ==
    /\ phase = "build"
    /\ c \in created \ built
    /\ created' = created \cup parts
    /\ built' = built \cup {c}
    /\ UNCHANGED <<phase, vif, wired, bindings>>

BuildTest == Build("test", {"testbench"})

BuildTestbench == Build("testbench", TestbenchParts)

\* The testbench has configured its agents as UVM_ACTIVE.
BuildRxAgent == Build("rx_agent", AgentParts("rx_agent"))

BuildTxAgent == Build("tx_agent", AgentParts("tx_agent"))

BuildResetAgent == Build("reset_agent", AgentParts("reset_agent"))

BuildRxDriver == "rx_agent" \in vif /\ Build("rx_agent.driver", {})

BuildTxDriver == "tx_agent" \in vif /\ Build("tx_agent.driver", {})

BuildResetDriver == "reset_agent" \in vif /\ Build("reset_agent.driver", {})

BuildMonitor ==
    \E agent \in Watching : agent \in vif /\ Build(Monitor[agent], {})

BuildScoreboard == Build("scoreboard", {})

BuildSequencer ==
    \E c \in {"sequencer"} \cup {Sequencer[agent] : agent \in Agents} :
        Build(c, {})

\* "Virtual interface not defined! Simulation aborted!"
Abort ==
    /\ phase = "build"
    /\ \E agent \in Agents \ vif : Users(agent) \cap (created \ built) # {}
    /\ phase' = "fatal"
    /\ UNCHANGED <<vif, created, built, wired, bindings>>

EndBuild ==
    /\ phase = "build"
    /\ built = created
    /\ phase' = "connect"
    /\ UNCHANGED <<vif, created, built, wired, bindings>>

\* Parts are connected before their owner.
Connect(c, parts, new) ==
    /\ phase = "connect"
    /\ c \in built \ wired
    /\ parts \subseteq wired
    /\ wired' = wired \cup {c}
    /\ bindings' = bindings \cup new
    /\ UNCHANGED <<phase, vif, created, built>>

ConnectLeaf ==
    \E c \in {"sequencer"} \cup UNION {AgentParts(agent) : agent \in Agents} :
        Connect(c, {}, {})

ConnectScoreboard ==
    Connect("scoreboard", {}, {<<"rx_analysis_export", "rx_fifo">>,
                               <<"tx_analysis_export", "tx_fifo">>})

ConnectRxAgent ==
    Connect("rx_agent", AgentParts("rx_agent"),
            {<<"rx_agent.driver", "rx_agent.sequencer">>,
             <<"rx_agent.monitor", "rx_agent">>})

ConnectTxAgent ==
    Connect("tx_agent", AgentParts("tx_agent"),
            {<<"tx_agent.driver", "tx_agent.sequencer">>,
             <<"tx_agent.monitor", "tx_agent">>})

ConnectResetAgent ==
    Connect("reset_agent", AgentParts("reset_agent"),
            {<<"reset_agent.driver", "reset_agent.sequencer">>})

\* Mutant: the ports of the agents are exchanged.
ConnectTestbenchCrossed ==
    Connect("testbench", TestbenchParts,
        {<<"sequencer", Sequencer[agent]>> : agent \in Agents}
            \cup {<<"rx_agent", "tx_analysis_export">>,
                  <<"tx_agent", "rx_analysis_export">>})

\* The pointers of the virtual sequencer are those of the agents.
ConnectTestbench ==
    Connect("testbench", TestbenchParts,
        {<<"sequencer", Sequencer[agent]>> : agent \in Agents}
            \cup {<<"rx_agent", "rx_analysis_export">>,
                  <<"tx_agent", "tx_analysis_export">>})

ConnectTest == Connect("test", {"testbench"}, {})

EndConnect ==
    /\ phase = "connect"
    /\ wired = built
    /\ phase' = "run"
    /\ UNCHANGED <<vif, created, built, wired, bindings>>

PhasesNext ==
    \/ BuildTest \/ BuildTestbench
    \/ BuildRxAgent \/ BuildTxAgent \/ BuildResetAgent
    \/ BuildRxDriver \/ BuildTxDriver \/ BuildResetDriver \/ BuildMonitor
    \/ BuildScoreboard \/ BuildSequencer \/ Abort \/ EndBuild
    \/ ConnectLeaf \/ ConnectScoreboard
    \/ ConnectRxAgent \/ ConnectTxAgent \/ ConnectResetAgent
    \/ ConnectTestbench \/ ConnectTest \/ EndConnect

-----------------------------------------------------------------------------

\* What components are bound to.
BoundTo(components) == {b[2] : b \in {b \in bindings : b[1] \in components}}

\* A monitor writes to its agent's port, that to an export of the scoreboard,
\* and that to a fifo.
Receivers(monitor) == BoundTo(BoundTo(BoundTo({monitor})))

(***************************************************************************)
(* When the run phase begins, in whatever order the components were built  *)
(* and connected, every component that samples or drives signals has its   *)
(* interface, the sequence reaches each driver's sequencer, and what a     *)
(* monitor writes reaches its fifo of the scoreboard.  Otherwise the       *)
(* simulation is aborted, and only if main() gave an agent no interface.   *)
(***************************************************************************)
Wired ==
    /\ phase \notin {"build", "connect", "fatal"} =>
         /\ vif = Agents
         /\ \A agent \in Agents :
               /\ Driver[agent] \in created
               /\ <<Driver[agent], Sequencer[agent]>> \in bindings
               /\ Sequencer[agent] \in BoundTo({"sequencer"})
         /\ Receivers(Monitor["rx_agent"]) = {"rx_fifo"}
         /\ Receivers(Monitor["tx_agent"]) = {"tx_fifo"}
    /\ phase = "fatal" => vif # Agents

=============================================================================
