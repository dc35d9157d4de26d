------------------------------ MODULE VlmBackend -----------------------------
(* The transports to the language model (src/vlm/backend.py): which backends    *)
(* the factory knows, and the request each makes of the messages it is given.   *)
(* A message is its role, and the form in which it carries an image:            *)
(* "url" (a data URI in a content block), "bare" (base64 in images), "none".    *)
EXTENDS Sequences

Servers == {"vllm", "ollama", "llamacpp"}
InProcess == {"transformers"}
Kinds == Servers \cup InProcess \cup {"echo"}

Message(role, image) == [role |-> role, image |-> image]

\* make_image_message: the image goes into a content block when there is one.
UserMessage(image) == Message("user", IF image = "none" THEN "none" ELSE "url")

\* Mutant: the messages are passed to Ollama as they are.
PassThrough(messages) == messages
\* Ollama wants bare base64 in a list of its own.
ToOllama(messages) ==
  [i \in DOMAIN messages |->
     [messages[i] EXCEPT !.image = IF @ = "url" THEN "bare" ELSE @]]

\* The closed reasoning block Ollama continues from.
Prefill == Message("assistant", "none")

VllmRequest(messages) == messages
LlamaCppRequest(messages) == messages
OllamaRequest(messages) == Append(ToOllama(messages), Prefill)

\* Vision inputs that cannot be processed are dropped, and the text goes alone.
TransformersRequests(messages) ==
  {messages, [i \in DOMAIN messages |-> [messages[i] EXCEPT !.image = "none"]]}

\* The requests a backend may make of the messages.
Requests(kind, messages) ==
  IF kind = "ollama" THEN {OllamaRequest(messages)}
  ELSE IF kind = "llamacpp" THEN {LlamaCppRequest(messages)}
  ELSE IF kind = "transformers" THEN TransformersRequests(messages)
  ELSE {VllmRequest(messages)}

\* The form in which a server understands an image: another is a 400 of Ollama.
Understood(kind, request) ==
  \A i \in DOMAIN request :
    request[i].image \in {"none", IF kind = "ollama" THEN "bare" ELSE "url"}
=============================================================================
