----------------------------- MODULE ServerRun -----------------------------
(***************************************************************************)
(* App.Run of app.go: the FastCGI, graceful and normal start-up paths,    *)
(* the HTTPS and HTTP server goroutines, the shared app.Server.Addr they  *)
(* write and read, and the endRunning channel (capacity 1) on which a     *)
(* goroutine whose listener failed wakes Run.                             *)
(*                                                                        *)
(* The configuration (BConfig.Listen) is chosen in Init among every       *)
(* combination of the flags that change the control flow. A listener's    *)
(* outcome is the environment's: binding may fail, and a serving server   *)
(* may stop with an error at any time. Addresses are abstracted to which  *)
(* server they were computed for.                                         *)
(***************************************************************************)
EXTENDS Naturals

Main == "main"
HTTP == "http"
HTTPS == "https"
Goroutines == {HTTP, HTTPS}

\* app.Server.Addr: "" as NewApp leaves it, or the address computed for
\* the HTTP server (addr) or for the HTTPS server (HTTPSAddr[:HTTPSPort]).
Addrs == {"", "http", "https"}

Flags == {"EnableFcgi", "Graceful", "EnableHTTP", "EnableHTTPS", "EnableMutualHTTPS",
          "HTTPSPortSet", "AutoTLS", "TrustCaReadable"}

\* endRunning = make(chan bool, 1)
EndRunningCap == 1

VARIABLES
    conf,    \* the set of Flags that hold
    pc,      \* Main and each goroutine -> where it is
    chan,    \* values buffered in endRunning
    addr,    \* app.Server.Addr
    bound,   \* goroutine -> the address its listener was given ("" if none yet)
    failed   \* the goroutines whose listener failed (history)

vars == <<conf, pc, chan, addr, bound, failed>>

On(f) == f \in conf
TLSEnabled == On("EnableHTTPS") \/ On("EnableMutualHTTPS")

Init ==
    /\ conf \in SUBSET Flags
    /\ pc = [p \in {Main} \cup Goroutines |-> IF p = Main THEN "start" ELSE "off"]
    /\ chan = 0
    /\ addr = ""
    /\ bound = [g \in Goroutines |-> ""]
    /\ failed = {}

-----------------------------------------------------------------------------
(* Run, on the calling goroutine.                                         *)

\* FastCGI (lines 77-102): Serve over standard I/O or a listener; Run
\* returns when it does.
RunFcgi ==
    /\ pc[Main] = "start" /\ On("EnableFcgi")
    /\ pc' = [pc EXCEPT ![Main] = "fcgi"]
    /\ UNCHANGED <<conf, chan, addr, bound, failed>>

FcgiReturn ==
    /\ pc[Main] = "fcgi"
    /\ pc' = [pc EXCEPT ![Main] = "returned"]
    /\ UNCHANGED <<conf, chan, addr, bound, failed>>

\* Lines 104-167 and 173-238: the goroutines of the enabled servers are
\* started and Run waits on endRunning. In graceful mode app.Server.Addr
\* is first set to HTTPSAddr (line 118).
RunStart ==
    /\ pc[Main] = "start" /\ ~On("EnableFcgi")
    /\ pc' = [p \in DOMAIN pc |->
                CASE p = Main -> "wait"
                  [] p = HTTPS /\ TLSEnabled -> "start"
                  [] p = HTTP /\ On("EnableHTTP") -> "start"
                  [] OTHER -> "off"]
    /\ addr' = IF On("Graceful") THEN "https" ELSE addr
    /\ UNCHANGED <<conf, chan, bound, failed>>

\* <-endRunning (lines 168, 239).
Receive ==
    /\ pc[Main] = "wait" /\ chan > 0
    /\ chan' = chan - 1
    /\ pc' = [pc EXCEPT ![Main] = "returned"]
    /\ UNCHANGED <<conf, addr, bound, failed>>

-----------------------------------------------------------------------------
(* The server goroutines.                                                 *)

\* A listener given address a either fails to bind, or serves.
Listen(g, a) ==
    /\ bound' = [bound EXCEPT ![g] = a]
    /\ \/ pc' = [pc EXCEPT ![g] = "serving"] /\ UNCHANGED failed
       \/ pc' = [pc EXCEPT ![g] = "failing"] /\ failed' = failed \cup {g}

\* Graceful HTTPS (lines 120-151): after the sleep, HTTPSAddr:HTTPSPort
\* when a port is set (also written to app.Server.Addr); the grace
\* server is given that local address.
GraceHTTPS ==
    /\ pc[HTTPS] = "start" /\ On("Graceful")
    /\ addr' = IF On("HTTPSPortSet") THEN "https" ELSE addr
    /\ Listen(HTTPS, "https")
    /\ UNCHANGED <<conf, chan>>

\* Graceful HTTP (lines 153-166): a grace server on addr.
GraceHTTP ==
    /\ pc[HTTP] = "start" /\ On("Graceful")
    /\ Listen(HTTP, "http")
    /\ UNCHANGED <<conf, chan, addr>>

\* Normal HTTPS, lines 175-181: with a port, app.Server.Addr is set to
\* the HTTPS address; without one it is left alone, unless HTTP is also
\* enabled, when the goroutine returns without a word on endRunning.
HTTPSStart ==
    /\ pc[HTTPS] = "start" /\ ~On("Graceful")
    /\ \/ /\ On("HTTPSPortSet")
          /\ addr' = "https"
          /\ pc' = [pc EXCEPT ![HTTPS] = "tls"]
       \/ /\ ~On("HTTPSPortSet") /\ On("EnableHTTP")
          /\ pc' = [pc EXCEPT ![HTTPS] = "exited"]
          /\ UNCHANGED addr
       \/ /\ ~On("HTTPSPortSet") /\ ~On("EnableHTTP")
          /\ pc' = [pc EXCEPT ![HTTPS] = "tls"]
          /\ UNCHANGED addr
    /\ UNCHANGED <<conf, chan, bound, failed>>

\* Lines 183-203: autocert, or mutual TLS, which returns without a word
\* on endRunning when TrustCaFile cannot be read.
HTTPSConfigTLS ==
    /\ pc[HTTPS] = "tls"
    /\ pc' = [pc EXCEPT ![HTTPS] =
                IF ~On("AutoTLS") /\ On("EnableMutualHTTPS") /\ ~On("TrustCaReadable")
                THEN "exited" ELSE "listen"]
    /\ UNCHANGED <<conf, chan, addr, bound, failed>>

\* Line 204: app.Server.ListenAndServeTLS reads app.Server.Addr now.
HTTPSListen ==
    /\ pc[HTTPS] = "listen"
    /\ Listen(HTTPS, addr)
    /\ UNCHANGED <<conf, chan, addr>>

\* Line 214: app.Server.Addr = addr.
HTTPStart ==
    /\ pc[HTTP] = "start" /\ ~On("Graceful")
    /\ addr' = "http"
    /\ pc' = [pc EXCEPT ![HTTP] = "listen"]
    /\ UNCHANGED <<conf, chan, bound, failed>>

\* Lines 216-236: net.Listen("tcp4") and Serve, or ListenAndServe, on
\* app.Server.Addr as it is now; every failure is sent on endRunning.
HTTPListen ==
    /\ pc[HTTP] = "listen"
    /\ Listen(HTTP, addr)
    /\ UNCHANGED <<conf, chan, addr>>

\* A serving server stops with an error (Serve returns).
ServeFail(g) ==
    /\ pc[g] = "serving"
    /\ pc' = [pc EXCEPT ![g] = "failing"]
    /\ failed' = failed \cup {g}
    /\ UNCHANGED <<conf, chan, addr, bound>>

\* Mutant: the failure is logged and the goroutine returns.
SendEndDropped(g) ==
    /\ pc[g] = "failing"
    /\ pc' = [pc EXCEPT ![g] = "exited"]
    /\ UNCHANGED <<conf, chan, addr, bound, failed>>

\* logs.Critical, a sleep, then endRunning <- true (lines 131-133,
\* 146-148, 162-164, 205-207, 219-221, 225-227, 232-234): blocks while
\* the buffer is full.
SendEnd(g) ==
    /\ pc[g] = "failing" /\ chan < EndRunningCap
    /\ chan' = chan + 1
    /\ pc' = [pc EXCEPT ![g] = "exited"]
    /\ UNCHANGED <<conf, addr, bound, failed>>

Goroutine(g) ==
    \/ g = HTTPS /\ (GraceHTTPS \/ HTTPSStart \/ HTTPSConfigTLS \/ HTTPSListen)
    \/ g = HTTP /\ (GraceHTTP \/ HTTPStart \/ HTTPListen)
    \/ SendEnd(g)

Next ==
    \/ RunFcgi \/ FcgiReturn \/ RunStart \/ Receive
    \/ \E g \in Goroutines : Goroutine(g) \/ ServeFail(g)

\* The Go scheduler runs every runnable goroutine: Run's receive and each
\* goroutine's own steps are weakly fair. Whether and when a listener or
\* a FastCGI server stops is the environment's, and is not.
Spec ==
    Init /\ [][Next]_vars
    /\ WF_vars(RunStart) /\ WF_vars(Receive)
    /\ \A g \in Goroutines : WF_vars(Goroutine(g))

-----------------------------------------------------------------------------
(* Properties.                                                            *)

\* endRunning exists so that Run returns once a server has stopped: when
\* a listener fails, in any mode and configuration, Run eventually
\* returns (every failure path ends with a send, the buffer takes one).
RunReturnsOnFailure == (failed # {}) ~> (pc[Main] = "returned")

\* Each server listens on the address computed for it: the HTTP server
\* never on the HTTPS address, the HTTPS server never on the HTTP one.
\* In normal mode both goroutines write and read the one app.Server.Addr
\* (lines 177, 204, 214, 231), ordered only by a 1 ms sleep.
NoCrossBinding == bound[HTTP] # "https" /\ bound[HTTPS] # "http"

\* Run blocks on endRunning only while some server is starting or
\* serving: it never waits for a message no goroutine can send.
NoIdleWait ==
    (pc[Main] = "wait" /\ chan = 0) => \E g \in Goroutines : pc[g] \notin {"off", "exited"}
=============================================================================
