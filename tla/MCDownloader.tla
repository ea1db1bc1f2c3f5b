---------------------------- MODULE MCDownloader ----------------------------
(* Values for model-checking Downloader. *)
EXTENDS Downloader

CONSTANTS reactor, tracker

MCClients  == {reactor, tracker}
MCOutgoing == Requests \cup {Interested}
MCIncoming == Answers \cup Signals

=============================================================================
