------------------------------ MODULE Banners -------------------------------
(***************************************************************************)
(* The banners of one expert: uploaded within the plan's allowance and     *)
(* deleted by the expert (expert-service), approved, rejected, switched on *)
(* and off and deleted by a moderator (admin-service), and served to       *)
(* viewers whose views and taps are counted per day (expert-service).      *)
(***************************************************************************)
EXTENDS Integers, FiniteSets, Functions

CONSTANTS
    BannerIds,
    Uploads,      \* uploads of the expert handled at a time
    Viewers,      \* a signed-in user, or an address
    Taps,         \* taps handled at a time
    MaxBanners,   \* the plan's allowance in a month
    Week, Month,  \* their lengths in days
    Days,         \* bound on the days that pass
    MaxCount      \* bound on the views and the taps of a day

ASSUME BannersAssumption ==
    /\ {MaxBanners, MaxCount} \subseteq Nat /\ IsFiniteSet(Taps)
    /\ Week \in 1..Month /\ Month \in Nat /\ Days \in Nat \ {0}

VARIABLES
    banner,      \* rows of expert_banners
    viewedBy,    \* rows of expert_banner_clicks: who has tapped each banner
    daily,       \* rows of expert_banner_daily_stats
    listedPlan,  \* the expert is approved, active, and subscribed with status "active"
    upload,      \* where each upload is
    tap,         \* where each tap is
    shownNow,    \* banners whose view is yet to be counted
    uncounted,   \* history: first taps whose count a restart lost
    today

bannerVars ==
    <<banner, viewedBy, daily, listedPlan, upload, tap, shownNow, uncounted, today>>

NoBanner == [status |-> "none", isActive |-> FALSE, created |-> 0]
Unseen   == [impressions |-> 0, clicks |-> 0, uniqueClicks |-> 0]
NotNow   == [op |-> "idle"]

BannersTypeOK ==
    /\ banner \in [BannerIds -> [status : {"none", "deleted", "pending", "approved", "rejected"},
                                 isActive : BOOLEAN, created : 0..Days]]
    /\ viewedBy \in [BannerIds -> SUBSET Viewers]
    /\ daily \in [BannerIds -> [1..Days -> [impressions : 0..MaxCount, clicks : 0..MaxCount,
                                            uniqueClicks : 0..MaxCount]]]
    /\ listedPlan \in BOOLEAN /\ today \in 1..Days
    /\ upload \in [Uploads -> {"idle", "count", "create"}]
    /\ tap \in [Taps -> {NotNow} \cup [op : {"insert"}, on : BannerIds, by : Viewers]
                                 \cup [op : {"bump"}, on : BannerIds, unique : 0..1]]
    /\ shownNow \subseteq BannerIds
    /\ uncounted \in [BannerIds -> Nat]

BannersInit ==
    /\ banner = [b \in BannerIds |-> NoBanner]
    /\ viewedBy = [b \in BannerIds |-> {}]
    /\ daily = [b \in BannerIds |-> [d \in 1..Days |-> Unseen]]
    /\ listedPlan = TRUE /\ today = 1
    /\ upload = [u \in Uploads |-> "idle"] /\ tap = [t \in Taps |-> NotNow]
    /\ shownNow = {} /\ uncounted = [b \in BannerIds |-> 0]

There(b) == banner[b].status \notin {"none", "deleted"}

(***************************************************************************)
(* createBanner: needs a plan that allows banners, fewer than its          *)
(* allowance among the banners of the last month, and with a weekly plan   *)
(* none of the last week; inserts the banner, to be moderated.             *)
(***************************************************************************)
Since(days) == {b \in BannerIds : There(b) /\ banner[b].created > today - days}

createBanner(u) ==
    /\ upload[u] = "idle" /\ listedPlan
    /\ upload' = [upload EXCEPT ![u] = "count"]
    /\ UNCHANGED <<banner, viewedBy, daily, listedPlan, tap, shownNow, uncounted, today>>

countBanners(u, weekly) ==
    /\ upload[u] = "count"
    /\ upload' = [upload EXCEPT ![u] =
         IF Cardinality(Since(Month)) < MaxBanners /\ (weekly => Since(Week) = {})
         THEN "create" ELSE "idle"]
    /\ UNCHANGED <<banner, viewedBy, daily, listedPlan, tap, shownNow, uncounted, today>>

insertBanner(u, b, isActive) ==
    /\ upload[u] = "create" /\ banner[b] = NoBanner
    /\ banner' = [banner EXCEPT ![b] = [status |-> "pending", isActive |-> isActive,
                                        created |-> today]]
    /\ upload' = [upload EXCEPT ![u] = "idle"]
    /\ UNCHANGED <<viewedBy, daily, listedPlan, tap, shownNow, uncounted, today>>

\* By the expert or a moderator; the clicks and the counts go with the banner.
deleteBanner(b) ==
    /\ There(b)
    /\ banner' = [banner EXCEPT ![b] = [NoBanner EXCEPT !.status = "deleted"]]
    /\ viewedBy' = [viewedBy EXCEPT ![b] = {}]
    /\ daily' = [daily EXCEPT ![b] = [d \in 1..Days |-> Unseen]]
    /\ uncounted' = [uncounted EXCEPT ![b] = 0]
    /\ UNCHANGED <<listedPlan, upload, tap, shownNow, today>>

(***************************************************************************)
(* Moderation, by id: whatever the banner was, it is approved and on, or   *)
(* rejected and off, or switched.                                          *)
(***************************************************************************)
Moderate(b, decision, isActive) ==
    /\ There(b)
    /\ banner' = [banner EXCEPT ![b].status = decision, ![b].isActive = isActive]
    /\ UNCHANGED <<viewedBy, daily, listedPlan, upload, tap, shownNow, uncounted, today>>

approveBanner(b) == Moderate(b, "approved", TRUE)
rejectBanner(b)  == Moderate(b, "rejected", FALSE)
toggleBannerActive(b, isActive) == Moderate(b, banner[b].status, isActive)

(***************************************************************************)
(* bumpBannerStats: one upsert of the day's row, which adds in place.  It  *)
(* fails, and is only logged, when the banner is gone.                     *)
(***************************************************************************)
bumpBannerStats(b, impressions, clicks, uniqueClicks) ==
    LET row == daily[b][today] IN
    /\ row.impressions + impressions <= MaxCount /\ row.clicks + clicks <= MaxCount
    /\ daily' = IF ~There(b) THEN daily
                ELSE [daily EXCEPT ![b][today] =
                        [impressions |-> row.impressions + impressions,
                         clicks |-> row.clicks + clicks,
                         uniqueClicks |-> row.uniqueClicks + uniqueClicks]]

\* Banners that are on and approved, of an expert who is listed.
getPublicBanners ==
    LET served == {b \in BannerIds : banner[b].status = "approved" /\ banner[b].isActive} IN
    /\ listedPlan /\ served # {} /\ shownNow = {}
    /\ shownNow' = served
    /\ UNCHANGED <<banner, viewedBy, daily, listedPlan, upload, tap, uncounted, today>>

countImpression(b) ==
    /\ b \in shownNow /\ shownNow' = shownNow \ {b}
    /\ bumpBannerStats(b, 1, 0, 0)
    /\ UNCHANGED <<banner, viewedBy, listedPlan, upload, tap, uncounted, today>>

(***************************************************************************)
(* recordBannerClick: finds a banner that is on and approved; inserts the  *)
(* viewer unless the row is there, and so learns whether it was the first  *)
(* tap; and counts.                                                        *)
(***************************************************************************)
recordBannerClick(t, b, v) ==
    /\ tap[t] = NotNow /\ banner[b].status = "approved" /\ banner[b].isActive
    /\ tap' = [tap EXCEPT ![t] = [op |-> "insert", on |-> b, by |-> v]]
    /\ UNCHANGED <<banner, viewedBy, daily, listedPlan, upload, shownNow, uncounted, today>>

\* Mutant: every tap counts as a first one.
createClickAlways(t) ==
    LET b == tap[t].on IN
    /\ tap[t].op = "insert"
    /\ \/ There(b) /\ viewedBy' = [viewedBy EXCEPT ![b] = @ \cup {tap[t].by}]
                   /\ tap' = [tap EXCEPT ![t] = [op |-> "bump", on |-> b, unique |-> 1]]
       \/ ~There(b) /\ tap' = [tap EXCEPT ![t] = NotNow] /\ UNCHANGED viewedBy
    /\ UNCHANGED <<banner, daily, listedPlan, upload, shownNow, uncounted, today>>

createClick(t) ==
    LET b == tap[t].on IN
    /\ tap[t].op = "insert"
    /\ \/ There(b) /\ viewedBy' = [viewedBy EXCEPT ![b] = @ \cup {tap[t].by}]
                   /\ tap' = [tap EXCEPT ![t] =
                        [op |-> "bump", on |-> b,
                         unique |-> IF tap[t].by \in viewedBy[b] THEN 0 ELSE 1]]
       \/ ~There(b) /\ tap' = [tap EXCEPT ![t] = NotNow] /\ UNCHANGED viewedBy
    /\ UNCHANGED <<banner, daily, listedPlan, upload, shownNow, uncounted, today>>

countClick(t) ==
    /\ tap[t].op = "bump"
    /\ bumpBannerStats(tap[t].on, 0, 1, tap[t].unique)
    /\ tap' = [tap EXCEPT ![t] = NotNow]
    /\ UNCHANGED <<banner, viewedBy, listedPlan, upload, shownNow, uncounted, today>>

\* First taps recorded and still to be counted.
Unwritten(b) == Cardinality({t \in Taps : tap[t].op = "bump" /\ tap[t].on = b /\ tap[t].unique = 1})

expertServiceRestarts ==
    /\ upload' = [u \in Uploads |-> "idle"]
    /\ tap' = [t \in Taps |-> NotNow] /\ shownNow' = {}
    /\ uncounted' = [b \in BannerIds |-> IF There(b) THEN uncounted[b] + Unwritten(b) ELSE 0]
    /\ UNCHANGED <<banner, viewedBy, daily, listedPlan, today>>

\* The expert's subscription, verification or account changes elsewhere.
ChangeListing ==
    /\ listedPlan' = ~listedPlan
    /\ UNCHANGED <<banner, viewedBy, daily, upload, tap, shownNow, uncounted, today>>

NextDay ==
    /\ today < Days /\ today' = today + 1
    /\ UNCHANGED <<banner, viewedBy, daily, listedPlan, upload, tap, shownNow, uncounted>>

BannersNext ==
    \/ \E u \in Uploads :
          \/ createBanner(u)
          \/ \E w \in BOOLEAN : countBanners(u, w) \/ \E b \in BannerIds : insertBanner(u, b, w)
    \/ \E b \in BannerIds :
          \/ deleteBanner(b) \/ approveBanner(b) \/ rejectBanner(b)
          \/ \E i \in BOOLEAN : toggleBannerActive(b, i)
          \/ countImpression(b)
          \/ \E t \in Taps, v \in Viewers : recordBannerClick(t, b, v)
    \/ getPublicBanners
    \/ \E t \in Taps : createClick(t) \/ countClick(t)
    \/ expertServiceRestarts \/ ChangeListing \/ NextDay

\* As listBanners adds up the daily counts of a banner.
UniqueClicks(b) == SumFunctionOnSet([d \in 1..Days |-> daily[b][d].uniqueClicks], 1..Days)

(***************************************************************************)
(* The unique clicks of a banner are people, each counted once: summed     *)
(* over the days they are the viewers recorded, except for the first taps  *)
(* whose count is under way or was lost with a restart, although two taps  *)
(* of a viewer may overlap and the day may change between the two writes.  *)
(***************************************************************************)
ClicksAddUp ==
    \A b \in BannerIds : There(b) =>
        UniqueClicks(b) + Unwritten(b) + uncounted[b] = Cardinality(viewedBy[b])
=============================================================================
