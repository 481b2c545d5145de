-------------------------- MODULE MCServiceRegistry --------------------------
(***************************************************************************)
(* Instances of ServiceRegistry for TLC: the scheduler, the reactor whose  *)
(* constructor uses it, and an I/O object service that uses the reactor.   *)
(* The keys are mangled names, ordered as ...asio21stream_socket_service,  *)
(* ...asio6detail13epoll_reactorE, ...asio6detail9schedulerE.              *)
(***************************************************************************)
EXTENDS ServiceRegistry, TLC

CONSTANT StreamSocket

MCServices == {Scheduler, Reactor, StreamSocket}
MCKeyOrder == <<StreamSocket, Reactor, Scheduler>>
MCUses == (Scheduler :> NoService) @@ (Reactor :> Scheduler)
            @@ (StreamSocket :> Reactor)
=============================================================================
