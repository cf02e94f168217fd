# Verification of the advertising framework

TLA+ models of the client library of `advertising_ads_framework`, checked with
TLC and, for the central results, proved with TLAPS. Paths are those of the
repository, below `src/`.

## The system

An application asks for ads through a JavaScript module; the library finds the
ad provider's service in a configuration file, connects to it, sends the
request, and turns the provider's answer into a call of the application's
listener or the outcome of a promise. Further parts show ads on the screen and
let a provider write its side.

| part | code | state | operations |
|---|---|---|---|
| JavaScript loader | `frameworks/js/napi/ads/src/advertising.js` | none of its own | `loadAd`, `loadAdWithMultiSlots`, `getAdRequestBody`; permission dialog; proxies around the listener |
| N-API calls | `ads/src/advertising.cpp` | the context of each asynchronous work | `LoadAd`, `LoadAdWithMultiSlots`, `GetAdRequestBody`, their execute and complete steps; `ShowAd` |
| load service | `ads/src/ad_load_service.cpp` | `adServiceElementName_` under `configLock_`; one `AdRequestConnection` for each request | reading the configuration, connecting, `OnAbilityConnectDone`, `OnAbilityDisconnectDone` |
| IPC stubs and callbacks | `common/ipc/src`, `ads/src/ad_load_napi_common.cpp` | work posted to the event loop | `OnRemoteRequest`, `OnAdLoadSuccess`/`Failure`, `OnRequestBodyReturn`, the uv callbacks |
| parsing a response, JS bridge | `advertising.js` | none | `parseAdResponse`; `registerWebAdInterface`, `deleteWebAdInterface`, `invokeAsync` of a web page; one connection for each call |
| showing an ad | `ads/src/advertising.cpp`, `cj_advertising_impl.cpp` | one `UIExtensionCallback` for each modal page | `ShowAd`, `OnRelease`, `OnResult`, `OnReceive`, `OnError` |
| ad component | `frameworks/js/napi/adcomponent` | connection shared by all components, count of main ads, event queue, proxy of the UI extension | appear, disappear, connect, reconnect, send, disconnect |
| auto ad component | `frameworks/js/napi/autoadcomponent` | refresh timer, visibility, proxy of the UI extension | load, refresh, visibility changes |
| service extension | `frameworks/js/napi/adsservice_extension_ability` | the caller named last | one RPC handler: validate, parse, hand over, answer |
| CJ binding | `frameworks/cj/ffi/ads` | as the load service, plus a death recipient and a blocking future; C structures | as the JavaScript path, and the conversion of requests and answers |

Threads: the application's event loop runs the JavaScript code, the native
calls, the completion of asynchronous work and the posted uv callbacks, one at
a time. Worker threads run `LoadAd` and `RequestAdBody`. Binder threads run the
connection's callbacks and the stubs. The ability manager and the provider are
other processes; the models treat them as external.

What is hard here: the outcome of a request can come from three places (the
worker's return value, the callback called by the worker, the provider's
answer), each on its own thread; the provider may answer twice, or die; the
configuration is shared, and its lock is taken and dropped several times per
request. `PROJECT.json` lists every hazard at its line. What makes each part
correct:

* pipeline: an application is told at most once, only what really happened, and
  is told unless one of a few named silent ends occurred;
* load service: a request connects to the names of one complete reading of the
  file, and nobody waits for the lock for ever;
* ad component: the shared connection is kept while somebody uses it; one main
  ad for each identifier; no event is lost while a reconnection is under way;
* auto ad component: at most one timer is pending, none when invisible, and a
  component in view goes on loading;
* UI extension: what it was told last is what is seen of it;
* service extension: a request is handed over in its own caller's name and is
  answered; the answer can be read;
* showing: a modal page is closed when its extension ends, by its own callback;
* one-shot calls: a refused call is over, an answer is heard once;
* CJ binding: a listener hears once of each thing that happened, the promise a
  caller waits on is settled once, and the caller gets what there is to get; a
  conversion takes exactly what is well formed and frees what it allocated.

## Modules

| module | what it is |
|---|---|
| `AdErrorCodes` | result codes, `ErrCodeConvert` |
| `AdServiceElement` | the provider's names, `IsConfigEmpty`, what a parsed file does to them |
| `AdRequest` | abstract: what an application is promised about one request |
| `AdLoadPipeline` | a request from the call to its outcome, over all threads |
| `AdServiceCell` | abstract: reading the configuration is one step |
| `AdServiceConfig` | the same at the level of `configLock_` |
| `CjServiceConfig` | the CJ binding's configuration: flag, lock, unlocked readers |
| `CjAdLoad` | a request of the CJ binding, loads and the blocking `getAdRequestBody` |
| `AdConnection` | the ad components of a page and the connection they share |
| `AdUiExtension` | the UI extension's process as both components see it: proxy, receiver, visibility |
| `AdComponentUi` | composes `AdConnection` and `AdUiExtension`: the end of a disconnection takes a component's proxy |
| `AutoAd` | an auto ad component: timer, visibility, answers, its extension (`AdUiExtension`) |
| `AdsServiceRpc` | the provider's RPC handler: validation, await, the service, replies |
| `AdsJson` | `toJSON`: the text of a reply, as tokens |
| `ShowAdSession` | `showAd` of both bindings, modal pages and their callbacks |
| `OneShotConnection` | `parseAdResponse` and the JS bridge |
| `CjAdData` | the CJ binding's conversions step by step, where any allocation may fail |
| `AdEndToEnd` | a load on its whole way: composes `AdLoadPipeline` and `AdsServiceRpc` |
| `MC...` of each | constants for TLC; `MCAdsServiceRpc` and `MCAdEndToEnd` put the replies of `AdsServiceRpc` through `AdsJson` |
| `...Proofs` of `AdLoadPipeline`, `AdServiceConfig`, `CjAdLoad`, `AdConnection`, `AutoAd`, `AdsServiceRpc` | theorems and proofs; those of `AdEndToEnd` follow those of `AdLoadPipeline` |
| `CjBindingProofs` | theorems and proofs of `CjServiceConfig` and `CjAdData` |
| `SingleCallProofs` | theorems and proofs of `ShowAdSession` and `OneShotConnection` |

`AdLoadPipeline` reads the configuration in one step, `ReadConfig`. That this is
sound is not assumed: `AdServiceConfig` has every acquisition of the lock and
every assignment as a step of its own and implements `AdServiceCell`
(`ReadsAtOnce`), in which reading and copying are single steps.

Several components are run by `MCAdConnection`, without the extension; one
component with its extension by `MCAdComponentUi`.

Operators named `X_Fault` style (`Complete_AlwaysRejects`,
`IsConfigEmpty_BundleOnly`, ...) are plausible bugs. They are part of no
specification; put in place of the operator they are named after, they break
the property `PROJECT.json` pairs them with.

### AdLoadPipeline and the code

| state | code |
|---|---|
| `file`, `element` | contents of the configuration file; `adServiceElementName_` |
| `call[r]` | where the application's call is: not made, thrown, waiting for the permission dialog, queued as asynchronous work, running, executed, completed |
| `listener[r]` | the native callback: none could be made, made but not connected to the application, connected |
| `err[r]` | `errCode` of the work's context |
| `target[r]`, `conn[r]` | `AdRequestConnection`: its copy of the element, its state |
| `replies[r]`, `inbox` | what the provider has answered; answers a binder thread has not taken |
| `posted` | work posted with `uv_queue_work_with_qos` |
| `heard[r]` | history: what the application has been told |

Each action is what one thread does between two points where another may run.
Parameters are abstracted to whether they parse; ads to whether they parse
(`valid`, `malformed`) or are missing (`empty`). An error forwarded without a
code is told as `Undefined`; the native parameter error of a body request, whose
code is a text, as `PARAM_ERROR_TEXT`. Failed allocations, `userId` and the
return value of `SendRequest` where the code ignores it are left out: a request
that could not be sent ends in `ConnectDoneFails`, as silently as in the code.
External steps: the ability manager accepts or refuses any connection to
complete names and refuses one without a name; the provider answers with any
code of `KitCode`, up to `MaxReplies` times, also after its service was
disconnected. This last step, `KitReplies`, is what `AdEndToEnd` replaces by the
provider's own code; `LibraryNext` is all the others.

### AdServiceConfig and the code

`pc[t]` is the place of worker `t` in `LoadAd`/`RequestAdBody`,
`GetAdServiceElement` and `GetConfigItem`; `holder` is `configLock_`; `root[t]`
the parsed file; `copy[t]` the thread's `localElement`. An absent file, one that
is not JSON and one that lacks an array are the same to the program (they leave
the element alone), so one value, `Unusable`, stands for them. `ReplaceFile` is
external: the carrier's file may appear, an update may rewrite it.

### CjServiceConfig and the code

As `AdServiceConfig`, with `ready` for `configInitialized_`. Readers take no
lock, so a read of a name that another thread is assigning may see the name
before, the name after or neither (`Torn`): the data race is in the code, for a
thread whose file was unusable reads all the same. `knows[t]` is history: the
thread saw the flag set, or set it.

### CjAdLoad and the code

| state | code |
|---|---|
| `call[r]`, `body[r]` | where `loadAd` or `getAdRequestBody` is; what the latter returned |
| `target[r]`, `conn[r]` | `AdRequestConnection`: `currAdServiceElementName_`, its state |
| `remote[r]`, `watch[r]` | the provider's process; `AdRequestDeathRecipient` |
| `told[r]` | calls of a load's listener, made in whichever thread learned of it |
| `settled[r]` | values put into the promise of `getAdRequestBody` |

`OnAbilityConnectDone` is two steps, as the provider may die after the death
recipient was added and before the request is sent. The second report of a
refused load goes through a raw pointer whose last owner may be gone: the call
arrives or it does not. A provider that is still up may stay silent for ever.
Unlike the N-API library this binding reports failed connections and dead
providers, and passes on the provider's codes as they are.

### AdConnection and the code

| state | code (`adcomponent.js`) |
|---|---|
| `connection`, `remoteObj`, `connectCount` | `AdConnectionManager`; `NoLink` is -1 or null |
| `adMainCounter` | `AdMainCounterMap` |
| `isAdRenderer`, `showComponent`, `isReconnecting`, `eventQueue` | the members of each component |
| `life[c]` | from `aboutToAppear` to the end of `aboutToDisappear` |
| `flight[c]` | calls of `sendMessageRequest` that are awaited, and what their caller does next |
| `turn[c]` | what the thread goes on with after an await that needs no answer |
| `links`, `disconnects[c]` | connections asked for and what became of them; disconnections of a component whose `finally` has not run |
| `events` | history: every event and its fate |

One thread runs all of it, so an action is what it does up to an await. An
await without a call to the provider (a `sendDataRequest` that only queued its
event) continues as a microtask, before any callback: while some `turn[c]` is not `"idle"` only that
continuation runs. `links` is the system's side: a connection may come up, come
up with a null remote object, fail, or go down later, in any order with the
others, also after it was given up. Clicks, touches, exposures and feedback are
one kind of event, as they are treated alike; INIT and CLOSE are the other two.
Two `onConnect`s differ (`OnConnect` sets the count to 1, `OnReconnect` adds 1
and starts the loop), the rest is shared. Left out: a
`connectServiceExtensionAbility` that throws at once, the state callback given
with INIT, window observers, layout and reading the configuration.

### AdComponentUi and the code

The `finally` of `disconnectServiceExtAbility` does two things
(`adcomponent.js:567-578`): it gives up the shared connection, which is
`DisconnectSettles(c)` of `AdConnection`, and it sets `uiExtProxy` of the
component that asked for it to null, which is `ProxyDropped` of
`AdUiExtension`. `DisconnectionEnds(c)` is both. A component may still be on the
page then, as after an answer with code -1. Its extension lives on, but a later
change of what is seen of it is only kept, and no receiver registers any more;
when the receiver registers late, what was kept is sent. `UiStep` has the
callbacks of the extension, which need the component to be shown; a component
that renders itself has an extension as well, as long as the application gives
it no renderer of its own. No handler of the shared connection reads the proxy.
So `AdConnection` is also checked, and its properties are proved, on its own, and
the composition implements it (`ExtensionApart`).

### AdUiExtension, AutoAd and the code

| state | code (`autoadcomponent.js`; the first four in `adcomponent.js` too) |
|---|---|
| `remoteProxy` | the proxy `onRemoteReady` hands out; `uiExtProxy` in `adcomponent.js` |
| `beforeReady` | `isVisibleBeforeRemoteReady`, `currentRatioBeforeRemoteReady` |
| `extension`, `area` | external: the process; what is seen of it |
| `remoteSees`, `gap` | history: what it was told last; whether the last change of `area` fell between the proxy and the receiver, or came when the proxy was gone |
| `refreshTime`, `isTaskRunning`, `timeoutId`, `isFirstLoad`, `showComponent`, `ads`, `want` | the members |
| `timers` | timers of the event loop that are pending |
| `rowArea`, `asked`, `answers`, `told` | what `onVisibleAreaChange` of the row said; calls, answers and `onStatusChanged` |
| `threw` | history: the application's `onStatusChanged` threw at the last success |

All is one thread, and each callback runs to its end. Answers of the loader may
be late, repeated and out of order, also after the component is gone, as
`AdLoader` keeps the listener. The parameters are taken as accepted by `loadAd`.
Three things follow the code though one might not expect them. A component whose
visibility was never reported refreshes itself. The proxy is kept when the
extension has died, so later ads are sent to nobody and told as a failure too.
And the success proxy of the loader calls `onAdLoadSuccess` inside its `try`
(`advertising.js:152-156`), so whatever throws there is told as a failure after
the success: the application's own `onStatusChanged` (`ListenerThrows`; the rest
of the handler is left out then, and the ads are not the first ones yet),
looking for the configuration file, which is outside of the `try` of
`getConfigJsonData` (`FirstAds`), or a `send` (`LaterAds`). `ToldOneWay` names
these cases.

### AdsServiceRpc, AdsJson and the code

| state | code (`adsservice_extension.js`) |
|---|---|
| `callingUid` | `rpc.IPCSkeleton.getCallingUid()`: whose message the thread took last |
| `pc[r]` | where the handler of request `r` is; the outcome of its promise |
| `msg[r]`, `uid[r]` | the message; the local variable read before the await |
| `handed[r]` | `packageName` in the slots given to the service |
| `calls[r]`, `replies[r]` | calls of `respCallback`; what was written to the client |

A message is one of the ways it can go wrong: its token, its JSON, each slot's
identifier, type and size. `Throws` says what makes `validate` throw, which
differs from what it refuses: several slots that are no array, or an identifier
without `trim` before one that is missing. The type and the size are looked at
in the first slot only (`:198`), as `Valid` has it. The platform keeps the
message until the handler's promise settles. `AdsJson` writes a value as a
sequence of tokens, so that what matters is where commas, brackets and nothing
at all are written, and which tokens are no JSON: the source of a function, a
value written as a string (`:464`, `data + ''`: NaN, Infinity, a boxed string),
a key with a character that has to be escaped (`:488` writes keys as they are).
An object without a class goes through `JSON.stringify` and is JSON whatever it
holds. Left out are values that make `toJSON` itself throw (a symbol; a bigint or
a cycle inside a plain object), and a boxed string or a key whose text happens
to be the JSON of something else. `parseAdOptions` is left out; it changes nothing else.

### AdEndToEnd and the code

The library and the handler of a provider that extends
`AdsServiceExtensionAbility`, each with its own variables, joined by messages:

| step | code |
|---|---|
| `TakeRequest` | the message of `SendAdLoadIpcRequest` reaches `onRemoteMessageRequest` |
| `Sendable` | what `GetAdsArray` and the parameter parser can have written: one object or an array, no size or type of 0, and the library's own token, which is the handler's, so the token check never fails here |
| `EndsSilently`, `GiveToService`, `ServiceReturns` | steps of the handler that send nothing |
| `ReplyRefusal`, `ReplyOfService`, `ReplyException` | steps of the handler in which `sendMsgReq` puts an answer on its way to `AdLoadCallbackStub` |
| `Wire`, `Readable` | the code, which is passed as it is, and whether `JSON.parse` of the client accepts the text |
| `OtherReplies` | external: a provider that is built in another way, and any that builds request bodies, for which the repository has no handler |
| `LibraryStep` | every step of the pipeline but `KitReplies` |

A load is answered in one of the two ways, never both. `Parsable` says which
answers have a text that parses; `MCAdEndToEnd` computes it with `AdsJson`, for
answers whose keys need no escaping.

### ShowAdSession and the code

`stage[s]` is where a call is; `provider[s]` the names found in the file;
`created[s]` the session that `CreateModalUIExtension` made and `sessionId_[s]`
what the callback object knows of it; `modals` the pages that cover the window;
`posted` and `heard` the callbacks of the extension. A JavaScript call holds the
UI thread, so its callbacks come after `SetSessionId`; a CJ call may come from
another thread, so they may come before, and then close session 0. Calls that
show nothing (no UI content, session 0, a context of another kind) end without a
word, as in the code.

### OneShotConnection and the code

| state | code (`advertising.js`) |
|---|---|
| `control` | the web controller: its registered proxy and what the page has of it |
| `asked[c]`, `result[c]` | parameters; how the call ended for its caller |
| `link[c]` | the connection; `"unsent"` when `sendMessageRequest` failed |
| `replies`, `inbox`, `acks` | the provider's answers; on their way; those answered TRUE |
| `told[c]` | calls of the listener or callback |

Connections are never disconnected by this code, so answers come until the
provider or the system ends them, and also after that. A listener that throws
makes the provider see FALSE for an answer that was heard.

### CjAdData and the code

| state | code |
|---|---|
| `at` | where the thread is in a conversion |
| `request`, `next`, `json` | the parameters, the field or attribute that comes next, the members written so far |
| `answer`, `slot`, `ad`, `header` | the parsed text and the loops' indices into it |
| `live` | the allocated blocks of the C structure, each named by its slot, ad, header and field |
| `short` | history: an allocation failed |

Each step of reading an answer allocates one block or fails, so memory may end
anywhere in it and come back. Writing a request has the memory it needs: in the
code a field for which there is none is left out without a word, and an object
for which there is none makes the call fail (`cj_advertising_common.cpp:134-137`).
A cleanup of one level is a step, which frees what that level's code looks
for. Texts matter only as absent, empty or not: `MallocCString` gives null for
an empty text, which its callers take for lack of memory, so one empty text
hides the whole answer (`WellFormed` says so). JSON is a sequence of named
members, `JsonParse` is the provider's external reading of it. The empty name
under which several slots are written is the constant `Unnamed`.

## Properties and runs

| run | bounds | shows |
|---|---|---|
| `load_pipeline` | a single load next to a body request, or a load of several slots alone; five provider codes (one for each branch of `ErrCodeConvert`, 100001 for the last); one answer each, of the handler too; a file with two services, one with a single service and one whose last name is no text; five messages, four answers of the service | `OneVerdict`, `VerdictHasCause`, `SilenceIsExplained`, `ToldWhatServiceDid`, that the pipeline implements `AdRequest` (`KeepsPromise`), and `EveryCauseIsReported`: all of the library joined to a provider's handler (`AdEndToEnd`) |
| `service_config` | three threads, five files (complete, another provider's, the shipped one, one whose ability is not a string, one whose ability is the empty string) | `CopyIsComplete`, `ReadsAtOnce`, `EveryThreadCopies` |
| `cj_service_config` | two threads, the same five files (three threads with four of them, 2.9 million states, were checked once) | `ReaderSeesPublished`, `FrozenOnceReady` |
| `cj_load` | one load or one body request; three answers, codes 200 and 100003; an element with two services, with one, and an empty one | `EachCauseToldOnce`, `VerdictHasCause`, `SettledOnce`, `BodyKeepsPromise`, `EndIsReported` |
| `ad_connection` | a component that renders itself and reports its mounting, and two that do not and are main components of one ad; two connections, one use besides the mounting, while the first is alone; codes 200, -1 and another | `EventsAccounted`, `NoStaleRemote`, `ShownAfterInit`, `OneMainUntilOneLeaves` |
| `ad_reconnect` | one component, three connections, so that two reconnections overlap a first connection; one use; the extension that draws its ad, while it is on the page and there are two connections at most (`AdComponentUi`); fair thread and provider | `QueueIsServed`, `LeavingEnds`, `RemoteSeesArea` of a proxy that is taken |
| `auto_ad` | one component; no refreshing, a time below and one above the limits; three loads, four timers, two answers, any of which the application's own handler may throw at; fair timers | `OneTimer`, `RemoteSeesArea`, `ToldOneWay`, `LoadsAgain` |
| `ads_service_rpc` | two requests of two callers, fifteen messages (one of each way a message can be), four answers of the service, two of them for each request, and three whose text is no JSON, given to a request alone and once (`UnreadableAlone`) | `OwnPackage`, `RefusedOrAnswered`, `SuccessHasAds`, `ReplyParses` |
| `rpc_silent_error` | the same, one answer | a disagreement of code and intention, below |
| `show_ad` | one ad shown from JavaScript, one from CJ, over one window; a file with all names, one whose name is no text, none; fair UI thread | `ClosedOnceHeard`, `ClosedByOwnCallback`, `PageIsClosed` |
| `one_shot` | one call of either kind, every input, three configurations, each branch of the codes, two answers | `PageFollowsController`, `RefusedIsFinal`, `AnswersHeard`, `SilenceHasCause` |
| `cj_data` | requests of every combination of fields with up to two extra attributes, up to three slots; answers of up to two ads with up to two headers, or of up to two slots; any allocations of an answer fail | `AcceptsExactly`, `NothingLeaks`, `RequestArrives` |

Type correctness of every state machine is proved for all constants (below), and
not asked of TLC again.

Requests of the pipeline share only `element` and the two sets of messages, and
a request never reads another's entries, so two requests of different kinds
exercise every interaction; one answer separates "answered" from "not answered",
and the theorems on `VerdictHasCause` and `SilenceIsExplained` hold for any
number of answers. Loads share the handler's thread besides; that a handler
keeps the callers of two requests apart is `OwnPackage`, in the run with two
requests. So the action constraint `MultiAlone` makes a load of several slots
alone, and one of a single slot next to a body request. Three threads are needed
for one to write, one to have read before and one to copy. The action constraint
`OneIsMade` of `cj_load` and `one_shot` only keeps a second call from being
made: calls share nothing there, so both kinds are explored, one after the
other. The two main components of `ad_connection` differ in nothing but their
name, so they are symmetric; the action constraint `UsesAlone` keeps a use
besides the mounting from being made next to others. `TwoConnections` of
`ad_reconnect` bounds what is followed together with the extension: an answer to
INIT or to a use is enough to take its proxy, and the theorem
`ComponentSeesArea` has no such bound. In `auto_ad` three loads let an answer to
the first come after the second, with a timer set in between. `CHECK_DEADLOCK
FALSE` in the runs of systems that stop: when every request, component or page
is at rest.

* `OneVerdict`: an application is told once, or success and then failure when
  its own success handler throws. It does not hold when the provider answers
  twice (no callback guards against that), which is why the run has one answer.
* `VerdictHasCause`: everything told follows from something that happened to
  this very request, with the code conversion of its kind.
* `SilenceIsExplained`: a request that came to rest in silence was not answered
  and not refused.
* `ToldWhatServiceDid`: what an application hears of a load is what the provider's
  service did with it, through the handler's checks, an await, the text of the
  reply, the stub and the tables of codes of both sides: no success without ads
  the service gave, no parameter error for parameters the handler accepts. If the
  application heard nothing, the service was not reached or did not call back.
* `EveryCauseIsReported`: an answer or a refusal is reported in the end.
* `EveryThreadCopies`: nobody waits for `configLock_` for ever.
* `FrozenOnceReady`, `ReaderSeesPublished`: the second look at the flag under the
  lock is what makes unlocked reading safe for those who saw the flag.
* `EachCauseToldOnce`: a load of the CJ binding that was not refused hears of
  each answer, death and failed connection once. So it may be told of success
  and then of the provider's death: `OneVerdict` is not promised here. A caller of
  `getAdRequestBody` goes on waiting exactly while none of them has happened: no
  cause gets lost between the threads.
* `SettledOnce`, `BodyKeepsPromise`: threads that race to settle the promise do
  not overwrite each other, and the caller sees `AdRequest`.
* `EndIsReported`: what ended a request reaches a blocked caller or a listener.
  What is left blocks for ever, as the wait has no timeout: a silent provider, a
  request that could not be sent, a provider that died unwatched.
* `CopyIsComplete`: a thread's copy lacks a name only if the file that thread
  itself read lacks it, or if a file some thread read has an empty text there:
  `GetConfigItem` assigns an empty text like any other, also over a name.
* `EventsAccounted`: no event is forgotten or kept twice, whatever answers,
  failures, dropped queues and overlapping loops do between two awaits.
* `QueueIsServed`: queued events wait for something that is under way. The
  exception is in the property: a null remote object leaves `isReconnecting` set.
* `NoStaleRemote`, `ShownAfterInit`: relate the shared connection to the count
  and to each component's own events.
* `OneMainUntilOneLeaves`: the part of the duplicate check that does hold.
* `LeavingEnds`: `aboutToDisappear` returns, unless the thread spins (see below).
* `OneTimer`: `isTaskRunning`, `timeoutId` and the pending timers agree through
  any order of hiding, showing, firing and leaving, and one timer is pending
  exactly while the component is to refresh itself: nothing is loaded for one that
  is hidden or gone, and no order makes one that is seen stop for good.
* `RemoteSeesArea`: an extension that listens was told last what is seen of it,
  with two exceptions, which the property names. A change between the proxy and
  the receiver is sent at once and then overwritten by the older value kept from
  before the proxy. And once `adcomponent.js:574` has taken the proxy of a
  component that is still there, a change is kept and never sent. A later change
  makes up for the first, and none for the second. `AutoAdComponent` never
  loses its proxy, so in `auto_ad` only the first one occurs.
* `ToldOneWay`: an answer is told as a success and a failure only if no
  extension was there, or if the application threw when it was told of the
  success. `LoadsAgain`: refreshing resumes however often it stopped.
* `OwnPackage`: an await lies between reading the caller and using its name.
* `RefusedOrAnswered`, `SuccessHasAds`: one reply for each call of the service's
  callback and one more if its function throws, and exactly one for a request that
  was refused; success with an empty list only where ads are in later lists of
  a single-slot answer.
* `ReplyParses`: the client can read every reply of success, unless it has one of
  four things `toJSON` writes wrongly, and reads none that has (`Unwritable`): an
  instance of no fields next to other ads, a function other than an instance's
  field, a value written as a string that is no JSON, a key that has to be escaped.
* `ClosedOnceHeard`, `ClosedByOwnCallback`, `PageIsClosed`: pages and callbacks
  are matched by an id that arrives after the page. A page whose callback was
  heard stays only if the callback came first, which is a CJ page's (`early`); a
  CJ page stays also when its extension ended by other than a release.
* `PageFollowsController`, `RefusedIsFinal`, `AnswersHeard`, `SilenceHasCause`:
  of one-shot calls, with answers in any order and after the connection is down.
* `AcceptsExactly`, `NothingLeaks`: whichever allocations fail, an answer is passed on
  exactly if it is well formed and memory sufficed, and no block is left.
* `RequestArrives`: the provider reads what a request gives, except a search
  keyword (written under `adId`) and all of several slots but the last.

Two components are what sharing needs: one that made the connection and one
that found it. `MaxLinks` bounds connections; an action that would ask for one
more is not taken, so a run shows what happens up to that point.

Fairness: weak fairness for each request's worker steps, for the binder threads
and for each posted work, because threads and the event loop run what they are
given; none for the application, the permission dialog, the ability manager or
the provider, and so none for the handler in `AdEndToEnd`. `AdServiceConfig` has
weak fairness for each thread; a thread takes the lock a bounded number of
times, so the lock is free for good in the end and no strong fairness is needed.
`AdConnection` has weak fairness for the thread's own continuations and for
disconnections, and strong fairness for the answer or failure of a call: it
waits for its turn in the event loop while the thread runs other things, and the
loop passes over nothing. `sendMessageRequest` answers or throws, as binder
calls do; nothing is assumed of pages or connections. `CjAdLoad` has weak
fairness for its worker and binder threads, as the pipeline. `AutoAd` assumes
that timers of the event loop fire, and nothing of answers or visibility;
`ShowAdSession` that a call of the CJ library goes on to `SetSessionId` and that
the UI thread runs callbacks posted to it. `AdsServiceRpc`, `OneShotConnection`
and `CjAdData` state safety only.

### Disagreements found

`rpc_silent_error`: the outer catch of the handler means to answer
`CODE_INTERNAL_ERROR` (`adsservice_extension.js:110`), but `replyRpcObj` belongs
to the try block, so the catch throws itself. A client that has no bundle name,
sends null, or sends several slots that are no array is never answered. The CJ
binding does the latter: it writes several slots as unnamed members of an object.

The following have a property and a configuration each; running TLC on the
module with it shows the counterexample. They are no part of the regular runs.

| module, configuration | property | what happens |
|---|---|---|
| `MCAdLoadPipeline`, `AdLoadSilentFailure.cfg` | `EveryFailureReported` | `README.md:185` says of `onAdLoadFailure` "Called when an ad request fails."; a connection that completes with an error is dropped without a call |
| `MCAdLoadPipeline`, `AdLoadShippedConfig.cfg` | `DocumentedConfigIsUsed` | `README.md:141` and `:143` describe the keys of the configuration file, and the repository's own file has just those; `GetConfigItem` ignores a file without `providerApiAbilityName` |
| `MCAdConnection`, `AdOneMain.cfg` | `OneMain` | `adcomponent.js:435` says "main ad duplicate, trigger onAdFail", but a duplicate that disappears clears the counter of the live main component, and the next one is let through |
| `MCAdConnection`, `AdReset.cfg` | `ResetWhenUnused` | `:571` says "connectCount=0, reset connection manager"; a successful CLOSE gives the connection up twice, and the other component loses its remote object |
| `MCAdConnection`, `AdLoop.cfg` | `LoopEnds` | `:530` "sendDataRequest pendingEvent done" is never reached when the shared remote object was reset: the loop puts back what it takes and awaits nothing |

The models show more, which the properties name as exceptions or have no
property of their own: an answer that does not parse calls `onAdLoadFailure`
with the code `undefined` (`README.md:186` says `number`), and a component that
reports its mounting before its connection is made asks for a second one, whose
handle overwrites the first
(`adcomponent.js:466` says "skip duplicate connect"); `showAd` that shows
nothing tells nobody; the CJ `showAd` computes the ad's text without putting it
into the Want, and closes its page on a release only; the CJ parser demands
`adType`, `uniqueId`, `rewarded`, `shown`, `clicked` and an array
`rewardVerifyConfig` of each ad, so the example ad of `README_zh.md:54` and
multi-slot answers as the service extension writes them are refused.

## Proofs

For every set of requests, kinds, provider codes, files and threads:

* `TypeCorrect`, `ConfigInvariant`, `CjConfigInvariant`, `CjLoadInvariant`,
  `ConnectionTypeCorrect`, `ShowInvariant`, `OneShotInvariant`, `AutoAdInvariant`,
  `RpcInvariant`, `ConvertInvariant`: types are kept, with the inductive invariant of each module.
* `VerdictCorrect`, `SilenceCorrect`: from the inductive invariant
  `InboxOK /\ PostedOK /\ StagesOK /\ AccountedFor`. A verdict is told from a
  posted work, so `PostedOK` must say what a posted work reports, which needs
  `InboxOK`; a cause never goes away (lemma `CauseStays`), so what was told
  keeps its cause. Silence needs `AccountedFor`: an answer is heard or under
  way.
* `OneVerdictCorrect`, assuming `MaxReplies <= 1`: adds `OneUnderWay` (an answer
  is in one place) and `HeardOK` (while it is under way nothing was heard, and
  what was heard is all there will be).
* `KeepsPromiseCorrect`, with the same assumption: the refinement of `AdRequest`.
  The mapping takes a request's stage from its call, its listener, its connection
  and its answers (`StageOf`), so a step that moves none of these stutters
  (`Unmoved`, `StutterMaps`), and one that moves them for one request is `Move`,
  `Reject`, `Tell` or the quiet end of that request (`MoveMaps`, `RejectMaps`,
  `TellMaps`, `QuietMaps`). That a promise is told what it is told, and once,
  needs `HeardInvariant`. With two answers the pipeline does not implement it.
* `CopyComplete`: from `ConfigInv`: who holds the lock (`LockOK`), what each
  thread has parsed (`RootOK`), that a name once assigned is lost only
  to a file with an empty text there (`WrittenOK`), and that a thread that did not
  read the file found the element
  complete (`ReadOrComplete`).
* `ReadsAtOnceCorrect`: the refinement. The mapping takes the whole reading to
  the moment the file is opened: while a thread is writing, the abstract element
  is what the element will be when it has finished (`Committed`).

* `UnlockedReadIsSafe`, `PublishedIsFrozen`: from `CjConfigInv`. The lock has one
  holder (`HolderOK`), a set flag means a complete element and nobody between
  the second look and the flag (`ReadyOK`), so a read after the flag cannot
  overlap an assignment (lemma `SeenPublished`).
* `PromiseSettledOnce`, `BodyKeepsPromiseCorrect`: from `CjLoadInv`, which ties
  where a call is to the state of its connection (`StageOK`, `ReturnedOK`) and
  answers under way to answers given (`InboxOK`). Every step of a binder thread
  is `Answer` of `AdRequest` or changes nothing it sees (lemma `SettleMaps`).

* `CjVerdictCorrect`: causes never go away (`LoadCauseStays`, `BodyCauseStays`)
  and a step that tells something has just had its cause (`NewVerdict`).
* `EachCauseToldOnceCorrect`: the causes of a request are the answers taken, a death
  told and a connection that failed. A step is no cause and tells nothing, or is
  one and tells it (`CountStep`); counting what waits needs that `inbox` is finite,
  and for a promise that causes never become fewer than none (`CountInv`).

* `EventsAccountedCorrect`: `EventsAccounted` is
  inductive together with `TypeOK`. The proof is about one component's
  events, queue and calls at a time: a step appends an event, takes it from one place to the
  other or settles it, and lemmas say that each of these keeps `Kept`, which is
  `Accounted` with what may be under way made explicit.
* `NoStaleRemoteCorrect`: inductive with `TypeOK`.
* `QueueIsServedCorrect`: from `QueueInv`, which adds that a component that
  reconnects has a reconnection or a loop under way even when its queue is empty;
  otherwise a later event would be queued and wait for nothing.
* `ShownAfterInitCorrect`: from `FreshInv` (a component that has not appeared,
  or was refused, has no calls or links of its own and is not shown) and `ShownInv`.
* `ExtensionApart`: every step of `AdComponentUi` is one of `AdConnection` or
  leaves it alone, so all of the above holds with the extension. `ComponentSeesArea`:
  `RemoteSeesArea` where the proxy may be taken at any end of a disconnection,
  from `UiInv` alone.
* `OneMainCorrect`: until a main component leaves, the counter of its identifier
  is 1 as long as one is let through (`Counted`).

These hold for any number of components and of connections (`MaxLinks` and
`MaxUses` are any numbers).

* `ClosedOnceHeardCorrect`, `ClosedByOwnCallbackCorrect`: from `ShowInv`: sessions
  are numbered as they are made (`NumbersOK`), what a callback object knows goes
  with how far its call is (`StageOK`), no page outlives its window (`PagesOK`),
  and a page of JavaScript that a callback closed stays closed (`StaysClosed`).
* `OneTimerCorrect`, `RemoteSeesAreaCorrect`, `ToldOneWayCorrect`: from `TimerInv`
  (nothing is seen of a component before it appears), `UiInv` (a value kept is
  the newest one until the receiver takes it, but for the gaps) and `ExtensionInv`
  (the extension comes with the first ads, and its proxy is kept for good).
* `OwnPackageCorrect`, `RefusedOrAnsweredCorrect`, `SuccessHasAdsCorrect`: from
  `RpcInv`, which says for each request what it can have been given and sent at
  each place of its handler, and of every reply of success why it has ads; a
  reply stays justified because messages do not change and calls are only added.
* `OneReplyCorrect`: a service that calls back at most once (`MaxAnswers` <= 1)
  replies at most once, unless its function also throws. That is the provider
  the theorems on `OneVerdict` and `KeepsPromise` assume with `MaxReplies` <= 1.
* `RepliesHaveCauseCorrect`: every reply has its cause in what the service did or
  in the message. A reply is written once and nothing it rests on is taken back
  (`ReplyCauseStays`), so only a new reply needs its cause (`NewReplyCause`).

Of the library and the handler together (`AdEndToEnd`), from the named assumption
`EndToEndAssumption`: each load has a caller, a message that is one object has one
slot, and the handler's codes are among those a provider may answer with.

* `HandlerCorrect`, `SystemIsPipeline`: the composition is a behaviour of
  `AdsServiceRpc` and one of `AdLoadPipeline`. So nothing the joined system
  does is beyond what either was checked and proved for, and every theorem
  above on one of them holds of it.
* `LinkedCorrect`: `Linked` is what ties the halves: a load that a handler took was
  sent by the library, with its token, and the answers the library was given for
  it are those that handler wrote, in their order, as the wire reads them
  (`PassedLinked`); no step of the library changes that (`LibraryKeeps`).
* `ToldWhatServiceDidCorrect`: what was told has its cause in an answer
  (`VerdictCorrect`), that answer is one of the handler's (`LinkedCorrect`), which
  has its cause in the service (`RepliesHaveCauseCorrect`); the step from one to
  the next goes through both tables of codes (`CauseOfReply`, `ToldHasServiceCause`).
  Silence is `SilenceCorrect` and the handler's invariant.

* `PageFollowsControllerCorrect`, `RefusedIsFinalCorrect`, `AnswersHeardCorrect`,
  `SilenceHasCauseCorrect`: from `OneShotInv`. `EndOK` ties how a call ended to its
  connection: without one there was no answer, with one nothing was given null.
  `AnswerOK` has each answer on its way, heard, or one that nobody can hear; an
  answer on its way was not heard yet, which is what keeps it from being heard
  twice, as each number is in `inbox` once and never again.
* `AcceptsExactlyCorrect`, `NothingLeaksCorrect`: from `AnswerInv`, which gives
  `live` at each place exactly: the blocks of the slots, ads and headers before
  this one (`SlotsSoFar`, `AdsSoFar`, `HeadersSoFar`) and those of the present
  one. The lemmas `AdFreed`, `ArrayFreed`, `PairFreed` and `SlotsFreed` say that a
  level's cleanup leaves exactly what the level above had before it. `WellSoFar`
  says that all that was passed is well formed, `VerdictOK` that a refusal has a
  cause.
* `RequestArrivesCorrect`: from `RequestInv`, which says of each field what a parser
  would read in the members written so far (`Says`); `JsonParse` of all of them is
  then what was said last.

These hold for any number of calls, requests, messages, answers, slots, ads,
headers, attributes and refresh times.

Only model-checked, and why:

* the liveness properties `EveryCauseIsReported`, `EveryThreadCopies`,
  `EndIsReported`, `LeavingEnds`, `LoadsAgain`, `PageIsClosed` (fairness and
  ENABLED are beyond the prover);
* `ReplyParses`: it is about what the recursive functions of `AdsJson` compute,
  and induction over data is beyond the prover.

## Not modelled

* Parsing of request parameters in the N-API layer: sequential, data only; the
  pipeline keeps whether it succeeds.
* The native extension host (`js_adsservice_extension.cpp`): it forwards calls
  between the ability runtime and the JavaScript object and keeps nothing.
* Of the ad components: window observers, layout, reading the configuration
  (a file of 4096 bytes or more is cut and then does not parse), and the second
  `setWant` that `adcomponent.js:817` makes in a catch.
* The CJ singleton's creation, a data race without a second outcome short of
  undefined behaviour.
* `parseAdOptions`; the FFI functions, which look up an object and pass the call on.
* Utilities, constants, build files, module registration.

## Plan

All modules planned are written and their safety properties proved. What would
extend the project:

1. The provider that builds request bodies, once the repository has its
   handler; today `OtherReplies` stands for it.
2. The CJ library joined to the same handler. Several slots reach it as members
   of an object without names (see `rpc_silent_error`), so it is not a copy of
   `AdEndToEnd`.
