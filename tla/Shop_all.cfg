SPECIFICATION Spec
CONSTANTS
    \* Memberships
    Sales = {1, 2, 3}
    LengthOf <- MCLengthOf
    LastDay = 2
    \* Carts; Variants has the same Requests
    Users = {"user"}
    Sessions = {"s1", "s2"}
    CartIds = {"c1", "c2"}
    Lines = {"line"}
    Available <- MCAvailable
    Nobody = Nobody
    NoCart = NoCart
    Requests = {"r1", "r2"}
    MaxQty = 2
    \* Coupons; DeliverySlots has the same MaxBusy
    Orders = {1, 2, 3, 4}
    PhoneOf <- MCPhoneOf
    MaxUses = 2
    MaxPerPhone = 1
    MaxBusy = 2
    MaxDrift = 1
    \* Loyalty
    Purchases = {1, 2}
    PointsFor <- MCPointsFor
    OrderEarns = 2
    Opening = 4
    MinPoints = 1
    MaxDiscount = 5
    GoldFrom = 6
    BirthdayPoints = 1
    Years = 1
    MaxSaves = 2
    \* DeliverySlots
    Bookings = {1, 2, 3}
    Dates <- MCDates
    SlotDates <- MCSlotDates
    MaxOrders = 1
    DefaultMax = 50
    \* OrderTotals
    Baskets <- MCBaskets
    TaxTables <- MCTaxTables
    Coupons <- MCCoupons
    NoCoupon = NoCoupon
    Plans <- MCPlans
    NoPlan = NoPlan
    PointsAsked = {0, 10, 50}
    Balances = {0, 30}
    Charges = {15}
    MinRedeem = 10
    RedeemPct = 20
    OnboardPct <- MCOnboardPct
    OnboardMax = 30
    CategoryOf <- MCCategoryOf
    BrandOf <- MCBrandOf
    ParentOf <- MCParentOf
    NoCategory = NoCategory
    \* CmsCache
    Slugs = {"here", "there"}
    Readers = {"visitor"}
    MaxText = 1
    Nothing = Nothing
    \* VendorChoice
    Listings = {1, 2, 3, 4}
    VendorOf <- MCVendorOf
    ProductOf <- MCProductOf
    PriceOf <- MCListingPrice
    MinutesOf <- MCMinutesOf
    RadiusOf <- MCRadiusOf
    Zones <- MCZones
    ZoneOrder <- MCZoneOrder
    ActiveSets = {{1, 2, 3, 4}, {1, 3}, {2, 3, 4}}
    Distances <- MCDistances
    Limits = {3, 9}
    Modes = {"Highest Priority", "Lowest Price", "Lowest Delivery Time"}
    Anyone = Anyone
    Nowhere = Nowhere
    NoListing = NoListing
    NoAsk = NoAsk
    \* PriceCaches
    Life <- MCLife
    NotCached = NotCached
    \* Variants
    Matrices <- MCMatrices
    SigOf <- MCSigOf
    NameOf <- MCNameOf
    SlugOf <- MCSlugOf
    MaxStarts = 3
INVARIANTS
    TypeOK
    OneMembershipApplies
    
    
    
    
    
    ShownIsRecent
    MatrixIsReported

    
CHECK_DEADLOCK FALSE
